---- MODULE Spec2Model ----
(***************************************************************************)
(* Dispatch and accounting engine of the distributed task runner backend   *)
(* (src/backend/server.js, first revision, lines 1-1989).                  *)
(*                                                                         *)
(* Every HTTP handler mutates the in-process store synchronously and       *)
(* awaits saveDb() only after its last mutation, so one handler is one     *)
(* atomic action.  Money is kept in micro-credits (10^-6 credit), the      *)
(* precision of toFixed(6) in issueChunkPayout.  Time is a discrete clock  *)
(* whose tick is one lease period (BUCKET_TIMEOUT_MS).  A JS null or       *)
(* undefined number is NULL, a missing workerId is NoWorker.               *)
(*                                                                         *)
(* Workers follow the protocol of the worker runner: a worker posts        *)
(* progress and results only for the bucket it was last granted, but it    *)
(* may do so late (after its lease expired or was dropped) and may repeat  *)
(* a post.  A record-chunk request may omit workerId.                      *)
(*                                                                         *)
(* A record-chunk request for a bucket with no stored result fails while   *)
(* it builds the result (line 1709 reads an undeclared name); what it      *)
(* changed in memory before is kept, or lost if the process restarts.      *)
(*                                                                         *)
(* Spec is the dispatcher with two workers, time and the task lifecycle;   *)
(* SpecLedger is the accounting with one worker, the wallet sandbox, the   *)
(* fee settings and result posts that name no worker.  SpecChurn is one    *)
(* worker that completes its buckets beside one that abandons them,        *)
(* SpecPlanner the byte-bounded range planner, SpecBudget the budget       *)
(* gates, SpecHeartbeat the liveness tracker, SpecLifecycle a task that    *)
(* allocates three buckets, SpecProgress progress requests of any body.    *)
(* SpecDeletion is two tasks of which either may be deleted,               *)
(* SpecSettlement ten items settled in five buckets, SpecOversize single   *)
(* items of 1 to 8 MiB, SpecWallet deposits and withdrawals of amounts     *)
(* kept as whole credits and millionths.                                   *)
(* SpecOrphan is a task whose customer has no account yet, SpecRunner the  *)
(* task loop of the worker runner (scripts/worker-runner.mjs) against the  *)
(* answers the backend can give it.                                        *)
(***************************************************************************)
EXTENDS Integers, Sequences, FiniteSets, TLC

\* ---------------------------------------------------------------- bounds
\* bucket indices a task may allocate
MaxChunkIndex == 2
\* clock ticks (a lease granted at 0 has run out at 2)
MaxTime == 2
\* rows of the transaction log (a seed-credit and two full payouts)
MaxTx == 7
\* manual deposits and withdrawals
MaxWalletOps == 1
\* clock ticks of the liveness tracker (a heartbeat sent at 0 is pruned at 3)
MaxHeartbeatTime == 3
\* bucket indices a task may allocate in the lifecycle runs
MaxLifecycleIndex == 3
\* manual deposits and withdrawals in the wallet runs
MaxWalletRuns == 3
\* buckets the backend grants one runner loop (the items of a task are finite)
MaxGrants == 2
\* items of a granted bucket
MaxBucketItems == 6

\* ------------------------------------------------------ program constants
MICRO == 1000000
DEFAULT_MAX_BUCKETS == 10
DEFAULT_BUCKET_BYTES == 1048576
\* the lease period, in clock ticks (20 minutes of wall time)
BUCKET_TIMEOUT_MS == 1
\* the heartbeat window, in clock ticks (20 minutes of wall time)
WORKER_TIMEOUT_MS == 1
\* worker runner: consecutive no-chunk answers before the loop gives up, and
\* items per progress batch
NO_CHUNK_MAX_RETRIES == 12
PROGRESS_BATCH_SIZE == 5
PLATFORM_FEE_PERCENT == 10
\* the seed balance, as set through DEV_INITIAL_WALLET: 2 credits
DEV_DEFAULT_WALLET == 2 * MICRO
\* the deposit and withdrawal limit, in credits
DepositLimit == 1000000

NULL == -1
NoWorker == "none"
Customers == {"c1"}
Workers == {"w1", "w2"}
Sessions == Customers
\* task ids the store may hold, and the last id created in the one-task runs
TaskIds == {1, 2}
SingleTask == 1

\* inputs of POST /api/tasks
CostChoices == {2 * MICRO}
MaxBillableChoices == {1}
FeeChoices == {10}
LedgerFeeChoices == {0, 10, 100}
LedgerWorker == "w1"
ItemsChoices == {<<1, 1, 1>>}
BucketBytesChoices == {2}
\* inputs of the wallet endpoints
AmountChoices == {2 * MICRO}
TerminalStatuses == {"completed", "failed", "skipped"}
RECURSIVE SetMax(_)
SetMax(S) == IF S = {} THEN 0 ELSE LET x == CHOOSE x \in S : TRUE IN
               IF SetMax(S \ {x}) > x THEN SetMax(S \ {x}) ELSE x
MaxItems == SetMax({Len(items) : items \in ItemsChoices})

VARIABLES
  DISABLE_BUDGET_CHECKS,   \* env flag, fixed at start-up
  SANDBOX_WALLET_ENABLED,  \* env flag, fixed at start-up
  now,                     \* Date.now()
  tasks,                   \* db.data.tasks, keyed by task id
  nextTaskId,              \* fresh ids (nanoid)
  chunkAssignments,        \* db.data.chunkAssignments (array)
  chunkResults,            \* db.data.chunkResults (array)
  users,                   \* db.data.users, keyed by sessionId
  walletTransactions,      \* db.data.walletTransactions (array)
  platformLedger,          \* db.data.platformLedger
  workerHeartbeats,        \* workerHeartbeats (Map): last heartbeat per worker
  held,                    \* per worker and task: the last bucket granted
  mustReclaim,             \* per task: workers that did not claim since revoke
  runner                   \* the worker runner's task loop (scripts/worker-runner.mjs)

vars == <<DISABLE_BUDGET_CHECKS, SANDBOX_WALLET_ENABLED, now, tasks, nextTaskId,
          chunkAssignments, chunkResults, users, walletTransactions,
          platformLedger, workerHeartbeats, held, mustReclaim, runner>>

\* ---------------------------------------------------------------- helpers
IsFinite(x) == x # NULL
Max(a, b) == IF a >= b THEN a ELSE b
Min(a, b) == IF a <= b THEN a ELSE b
Includes(seq, x) == \E i \in 1..Len(seq) : seq[i] = x
\* find(e => e.taskId === taskId && e.chunkIndex === chunkIndex): the
\* position of the first such entry, 0 if none
FindBucket(seq, taskId, chunkIndex) ==
  IF \E i \in 1..Len(seq) : seq[i].taskId = taskId /\ seq[i].chunkIndex = chunkIndex
  THEN CHOOSE i \in 1..Len(seq) :
         /\ seq[i].taskId = taskId /\ seq[i].chunkIndex = chunkIndex
         /\ \A j \in 1..(i - 1) : ~(seq[j].taskId = taskId /\ seq[j].chunkIndex = chunkIndex)
  ELSE 0
\* Number(x.toFixed(k)) of n/d on the micro grid: nearest, ties to the larger
RoundDiv(n, d) == (2 * n + d) \div (2 * d)

EmptyFcn == [x \in {} |-> 0]

\* new Map(): no worker has a heartbeat (line 21)
NoHeartbeats == [w \in Workers |-> NULL]

\* no runner loop is followed
NoRunner == [pc |-> "none"]

\* what a worker remembers of a bucket: the grant and the terminal status it
\* computed for it and posted (a repeated post carries the same status)
NoGrant == [chunkIndex |-> NULL, rangeStart |-> NULL, rangeEnd |-> NULL, sent |-> "none"]

\* the JSON body of a next-chunk response
Response(op, t, w, ok, msg) ==
  [op |-> op, taskId |-> t, worker |-> w, ok |-> ok, message |-> msg,
   chunkIndex |-> NULL, rangeStart |-> NULL, rangeEnd |-> NULL, resume |-> FALSE]

\* ----------------------------------------------------------- wallet ledger
\* a request amount: whole credits (floor) and millionths of a credit, since
\* the limit of 10^6 credits does not fit the micro grid of the model
Amount(credits, micros) == [credits |-> credits, micros |-> micros]
\* the same for an amount given in micro-credits
AmountOf(value) == Amount(value \div MICRO, value % MICRO)
InMicros(a) == a.credits * MICRO + a.micros

\* normalizeCurrencyAmount: Math.round(x * 100) / 100
normalizeCurrencyAmount(value) ==
  LET cents == RoundDiv(value.micros, MICRO \div 100)
  IN IF cents = 100 THEN Amount(value.credits + 1, 0)
     ELSE Amount(value.credits, cents * (MICRO \div 100))

\* normalized <= 0 (a -0 included)
NotPositive(normalized) ==
  normalized.credits < 0 \/ (normalized.credits = 0 /\ normalized.micros = 0)

\* normalized > 1_000_000
ExceedsLimit(normalized) ==
  \/ normalized.credits > DepositLimit
  \/ normalized.credits = DepositLimit /\ normalized.micros > 0

Tx(userId, type, amount, balanceAfter, taskId, chunkIndex) ==
  [userId |-> userId, type |-> type, amount |-> amount,
   balanceAfter |-> balanceAfter, taskId |-> taskId, chunkIndex |-> chunkIndex]

\* a store is the part of db.data the ledger functions mutate
Store(us, txs, ledger) == [users |-> us, walletTransactions |-> txs, platformLedger |-> ledger]

createUser(db, sessionId, initialBalance) ==
  [db EXCEPT !.users = [s \in DOMAIN db.users \cup {sessionId} |->
      IF s = sessionId THEN [walletBalance |-> initialBalance, seed |-> initialBalance]
      ELSE db.users[s]]]

ensureWorkerUser(db, workerId) ==
  IF workerId = NoWorker \/ workerId \in DOMAIN db.users THEN db
  ELSE createUser(db, workerId, 0)

pushWalletTransaction(db, payload) ==
  [db EXCEPT !.walletTransactions = Append(@, payload)]

\* variant: the balance moves and no transaction row is written
adjustUserBalanceUnlogged(db, userId, delta, type, taskId, chunkIndex) ==
  IF userId \notin DOMAIN db.users THEN db
  ELSE [db EXCEPT !.users[userId].walletBalance = @ + delta]

adjustUserBalance(db, userId, delta, type, taskId, chunkIndex) ==
  IF userId \notin DOMAIN db.users THEN db
  ELSE LET balance == db.users[userId].walletBalance + delta
           db1 == [db EXCEPT !.users[userId].walletBalance = balance]
       IN pushWalletTransaction(db1, Tx(userId, type, delta, balance, taskId, chunkIndex))

recordPlatformEarning(db, amount, taskId, chunkIndex) ==
  LET total == db.platformLedger.totalEarnings + amount
      db1 == [db EXCEPT !.platformLedger.totalEarnings = total]
  IN pushWalletTransaction(db1, Tx("platform", "platform-fee", amount, total, taskId, chunkIndex))


\* ----------------------------------------------------------- bucket planner
RECURSIVE HalveAndDoubleAtCapacity(_, _)
\* variant: the loop also runs when the item fills the bucket exactly
HalveAndDoubleAtCapacity(cfg, size) ==
  IF cfg.maxBuckets > 1 /\ size >= cfg.maxBucketBytes
  THEN HalveAndDoubleAtCapacity([maxBuckets |-> Max(1, cfg.maxBuckets \div 2),
                                 maxBucketBytes |-> cfg.maxBucketBytes * 2], size)
  ELSE cfg

RECURSIVE HalveAndDouble(_, _)
\* while (cfg.maxBuckets > 1 && size > cfg.maxBucketBytes) { halve; double }
HalveAndDouble(cfg, size) ==
  IF cfg.maxBuckets > 1 /\ size > cfg.maxBucketBytes
  THEN HalveAndDouble([maxBuckets |-> Max(1, cfg.maxBuckets \div 2),
                       maxBucketBytes |-> cfg.maxBucketBytes * 2], size)
  ELSE cfg

\* variant: the loop runs but the capacity is not raised after it
ensureItemFitsHalvingOnly(cfg, size) == HalveAndDouble(cfg, size)

\* variant: the config is left as it is
ensureItemFitsNever(cfg, size) == cfg

\* ensureItemFits (closure of calculateBucket): the config after making size fit
ensureItemFits(cfg, size) ==
  LET c1 == HalveAndDouble(cfg, size)
  IN IF size > c1.maxBucketBytes
     THEN [c1 EXCEPT !.maxBucketBytes = Max(c1.maxBucketBytes, size * 2)]
     ELSE c1

RECURSIVE SeqMax(_)
SeqMax(seq) == IF seq = <<>> THEN 0 ELSE Max(Head(seq), SeqMax(Tail(seq)))

\* the task with a bucket config written back to it (lines 645-650, 1503-1507)
WithBucketConfig(task, cfg) ==
  [task EXCEPT !.bucketConfig = cfg, !.totalChunks = cfg.maxBuckets,
               !.maxBucketBytes = cfg.maxBucketBytes]

\* ensureBucketConfig(task, items): the task with its config normalised
ensureBucketConfig(task, items) ==
  LET cfg == task.bucketConfig
      existingMaxBuckets == IF IsFinite(cfg.maxBuckets) /\ cfg.maxBuckets > 0
                            THEN Max(1, cfg.maxBuckets) ELSE NULL
      configuredTotalChunks == IF IsFinite(task.totalChunks) /\ task.totalChunks > 0
                               THEN Max(1, task.totalChunks) ELSE NULL
      desiredMaxBuckets == IF existingMaxBuckets # NULL THEN existingMaxBuckets
                           ELSE IF configuredTotalChunks # NULL THEN configuredTotalChunks
                           ELSE DEFAULT_MAX_BUCKETS
      maxBuckets1 == IF ~IsFinite(cfg.maxBuckets) \/ cfg.maxBuckets <= 0
                        \/ cfg.maxBuckets # desiredMaxBuckets
                     THEN desiredMaxBuckets ELSE cfg.maxBuckets
      fallbackBytes == IF IsFinite(task.maxBucketBytes) /\ task.maxBucketBytes > 0
                       THEN task.maxBucketBytes ELSE DEFAULT_BUCKET_BYTES
      maxBucketBytes1 == IF ~IsFinite(cfg.maxBucketBytes) \/ cfg.maxBucketBytes <= 0
                         THEN Max(1024, fallbackBytes) ELSE cfg.maxBucketBytes
      largestItemBytes == SeqMax(items)
  IN WithBucketConfig(task, ensureItemFits([maxBuckets |-> maxBuckets1,
                                            maxBucketBytes |-> maxBucketBytes1],
                                           largestItemBytes))

NoRange == [start |-> NULL, end |-> NULL]

\* normalizeRange(entry, fallbackIndex); NoRange is the JS null
normalizeRange(entry, fallbackIndex) ==
  IF IsFinite(entry.rangeStart) /\ IsFinite(entry.rangeEnd) /\ entry.rangeEnd > entry.rangeStart
  THEN [start |-> entry.rangeStart, end |-> entry.rangeEnd]
  ELSE IF fallbackIndex # NULL
  THEN LET itemsCount == IF IsFinite(entry.itemsCount) THEN Max(1, entry.itemsCount) ELSE 1
       IN [start |-> fallbackIndex, end |-> fallbackIndex + itemsCount]
  ELSE NoRange

\* collectRanges(entries): the ranges of the entries (their order is not used)
collectRanges(entries) ==
  {normalizeRange(entries[i], entries[i].chunkIndex) : i \in 1..Len(entries)} \ {NoRange}

indexCovered(index, ranges) == \E r \in ranges : index >= r.start /\ index < r.end

RECURSIVE BucketLoop(_, _, _, _, _)
\* the while loop of calculateBucket; st = [end, bytesUsed, limit, cfg]
BucketLoop(st, start, itemSizes, finishedRanges, assignedRanges) ==
  LET total == Len(itemSizes)
      end == st.end
  IN IF end >= total THEN st
     ELSE IF indexCovered(end, finishedRanges) \/ indexCovered(end, assignedRanges) THEN st
     ELSE LET size == itemSizes[end + 1]
              cfg1 == IF size > st.limit THEN ensureItemFits(st.cfg, size) ELSE st.cfg
              limit1 == IF size > st.limit /\ cfg1 # st.cfg THEN cfg1.maxBucketBytes ELSE st.limit
          IN IF size > limit1
             THEN IF end = start
                  THEN [st EXCEPT !.bytesUsed = size, !.end = start + 1, !.cfg = cfg1, !.limit = limit1]
                  ELSE [st EXCEPT !.cfg = cfg1, !.limit = limit1]
             ELSE IF st.bytesUsed > 0 /\ st.bytesUsed + size > limit1
             THEN [st EXCEPT !.cfg = cfg1, !.limit = limit1]
             ELSE LET st1 == [end |-> end + 1, bytesUsed |-> st.bytesUsed + size,
                              limit |-> limit1, cfg |-> cfg1]
                  IN IF st1.bytesUsed >= limit1 THEN st1
                     ELSE BucketLoop(st1, start, itemSizes, finishedRanges, assignedRanges)

\* the first index covered by neither a result nor a lease, NULL if none
FirstUncovered(total, finishedRanges, assignedRanges) ==
  LET free == {i \in 0..(total - 1) :
                 ~indexCovered(i, finishedRanges) /\ ~indexCovered(i, assignedRanges)}
  IN IF free = {} THEN NULL ELSE CHOOSE i \in free : \A j \in free : i <= j

\* calculateBucket(task, items, finishedRanges, assignedRanges):
\* [found, rangeStart, rangeEnd, bytesUsed, cfg]; found = FALSE is the JS null
calculateBucket(task, itemSizes, finishedRanges, assignedRanges) ==
  LET total == Len(itemSizes)
      start == FirstUncovered(total, finishedRanges, assignedRanges)
  IN IF start = NULL
     THEN [found |-> FALSE, rangeStart |-> NULL, rangeEnd |-> NULL, bytesUsed |-> 0,
           cfg |-> task.bucketConfig]
     ELSE LET cfg1 == ensureItemFits(task.bucketConfig, itemSizes[start + 1])
              st == BucketLoop([end |-> start, bytesUsed |-> 0,
                                limit |-> cfg1.maxBucketBytes, cfg |-> cfg1],
                               start, itemSizes, finishedRanges, assignedRanges)
              end == IF st.end = start THEN start + 1 ELSE st.end
              bytesUsed == IF st.end = start THEN itemSizes[start + 1] ELSE st.bytesUsed
          IN [found |-> TRUE, rangeStart |-> start, rangeEnd |-> Min(end, total),
              bytesUsed |-> bytesUsed, cfg |-> st.cfg]

\* ------------------------------------------------------ progress and payout
FinishedStatuses == {"completed", "failed", "skipped"}

TaskResults(results, t) == SelectSeq(results, LAMBDA r : r.taskId = t)
TaskAssignments(assignments, t) == SelectSeq(assignments, LAMBDA a : a.taskId = t)

\* items a result contributes to task.processedItems in computeProgress
ProcessedForResult(result) ==
  LET range == normalizeRange(result, result.chunkIndex)
      totalFromRange == IF range # NoRange THEN Max(0, range.end - range.start) ELSE NULL
      totalFromCount == IF IsFinite(result.itemsCount) THEN Max(0, result.itemsCount) ELSE NULL
      processedHint == IF IsFinite(result.processedItems) THEN Max(0, result.processedItems) ELSE NULL
      Coalesce(a, b) == IF a # NULL THEN a ELSE b
  IN IF result.status \in FinishedStatuses
     THEN Coalesce(totalFromRange, Coalesce(totalFromCount, Coalesce(processedHint, 0)))
     ELSE IF result.status = "processing"
     THEN Coalesce(processedHint, Coalesce(totalFromRange, 0))
     ELSE 0

RECURSIVE SumProcessed(_)
SumProcessed(results) ==
  IF results = <<>> THEN 0 ELSE ProcessedForResult(Head(results)) + SumProcessed(Tail(results))

\* computeProgress(task, db): the task with its derived fields recomputed
computeProgress(task, results) ==
  LET mine == TaskResults(results, task.id)
      processedChunks == Len(SelectSeq(mine, LAMBDA r : r.status \in FinishedStatuses))
      processedItems == SumProcessed(mine)
      chunkGoal == IF IsFinite(task.totalChunks) THEN task.totalChunks
                   ELSE IF IsFinite(task.maxBillableChunks) THEN task.maxBillableChunks
                   ELSE NULL
      progress == IF IsFinite(task.totalItems) /\ task.totalItems > 0
                  THEN Min(100, RoundDiv(processedItems * 100, task.totalItems))
                  ELSE IF chunkGoal # NULL /\ chunkGoal > 0
                  THEN Min(100, RoundDiv(processedChunks * 100, chunkGoal))
                  ELSE task.progress
  IN [task EXCEPT !.processedChunks = processedChunks,
                  !.processedItems = processedItems,
                  !.progress = progress,
                  !.status = IF progress = 100 THEN "completed" ELSE @]

\* variant: the guards without the budget cap of line 170
PayoutAllowedUncapped(db, task, chunkResult) ==
  /\ ~chunkResult.payoutIssued
  /\ chunkResult.status = "completed"
  /\ task.creatorId \in DOMAIN db.users

\* the guards of issueChunkPayout (lines 166-174)
PayoutAllowed(db, task, chunkResult) ==
  /\ ~chunkResult.payoutIssued
  /\ chunkResult.status = "completed"
  /\ ~(~DISABLE_BUDGET_CHECKS /\ task.chunksPaid >= task.maxBillableChunks)
  /\ task.creatorId \in DOMAIN db.users

\* variant: the worker is credited the whole cost and no fee is recorded
PayoutLedgerNoFee(db, task, chunkResult, workerId) ==
  LET db0 == ensureWorkerUser(db, workerId)
      db1 == adjustUserBalance(db0, task.creatorId, 0 - task.costPerChunk, "chunk-debit",
                               task.id, chunkResult.chunkIndex)
  IN IF workerId # NoWorker
     THEN adjustUserBalance(db1, workerId, task.costPerChunk, "chunk-credit",
                            task.id, chunkResult.chunkIndex)
     ELSE db1

\* the three ledger writes of issueChunkPayout (lines 175-199)
PayoutLedger(db, task, chunkResult, workerId) ==
  LET db0 == ensureWorkerUser(db, workerId)
      total == task.costPerChunk
      feePercent == IF IsFinite(task.platformFeePercent) THEN task.platformFeePercent
                    ELSE PLATFORM_FEE_PERCENT
      platformShare == RoundDiv(total * feePercent, 100)
      workerShare == total - platformShare
      db1 == adjustUserBalance(db0, task.creatorId, 0 - total, "chunk-debit",
                               task.id, chunkResult.chunkIndex)
      db2 == IF workerId # NoWorker
             THEN adjustUserBalance(db1, workerId, workerShare, "chunk-credit",
                                    task.id, chunkResult.chunkIndex)
             ELSE db1
  IN IF platformShare # 0
     THEN recordPlatformEarning(db2, platformShare, task.id, chunkResult.chunkIndex)
     ELSE db2

\* variant: a payout for a result of any status
issueChunkPayoutAnyStatus(db, task, chunkResult, workerId) ==
  IF \/ chunkResult.payoutIssued
     \/ ~DISABLE_BUDGET_CHECKS /\ task.chunksPaid >= task.maxBillableChunks
     \/ task.creatorId \notin DOMAIN db.users
  THEN [applied |-> FALSE, db |-> db, task |-> task, result |-> chunkResult]
  ELSE [applied |-> TRUE,
        db |-> PayoutLedger(db, task, chunkResult, workerId),
        task |-> [task EXCEPT !.chunksPaid = @ + 1,
                              !.budgetSpent = @ + task.costPerChunk],
        result |-> [chunkResult EXCEPT !.payoutIssued = TRUE,
                      !.workerId = IF workerId # NoWorker THEN workerId ELSE @]]

\* variant: a payout that counts the bucket but not its cost
issueChunkPayoutCostUncounted(db, task, chunkResult, workerId) ==
  IF ~PayoutAllowed(db, task, chunkResult)
  THEN [applied |-> FALSE, db |-> db, task |-> task, result |-> chunkResult]
  ELSE [applied |-> TRUE,
        db |-> PayoutLedger(db, task, chunkResult, workerId),
        task |-> [task EXCEPT !.chunksPaid = @ + 1],
        result |-> [chunkResult EXCEPT !.payoutIssued = TRUE,
                      !.workerId = IF workerId # NoWorker THEN workerId ELSE @]]

\* variant: a result whose customer cannot be resolved is marked as paid
issueChunkPayoutMarksUnresolved(db, task, chunkResult, workerId) ==
  IF PayoutAllowed(db, task, chunkResult) THEN issueChunkPayoutAnyStatus(db, task, chunkResult, workerId)
  ELSE [applied |-> FALSE, db |-> db, task |-> task,
        result |-> [chunkResult EXCEPT !.payoutIssued = @ \/ task.creatorId \notin DOMAIN db.users]]

\* issueChunkPayout(db, task, chunkResult, workerId):
\* [applied, db, task, result] after the call
issueChunkPayout(db, task, chunkResult, workerId) ==
  IF ~PayoutAllowed(db, task, chunkResult)
  THEN [applied |-> FALSE, db |-> db, task |-> task, result |-> chunkResult]
  ELSE [applied |-> TRUE,
        db |-> PayoutLedger(db, task, chunkResult, workerId),
        task |-> [task EXCEPT !.chunksPaid = @ + 1,
                              !.budgetSpent = @ + task.costPerChunk],
        result |-> [chunkResult EXCEPT !.payoutIssued = TRUE,
                      !.workerId = IF workerId # NoWorker THEN workerId ELSE @]]

\* -------------------------------------------------------- lease bookkeeping
\* variant: a lease is swept from its deadline on
sweepExpiredAssignmentsAtDeadline(assignments, taskId) ==
  SelectSeq(assignments, LAMBDA e : ~(e.taskId = taskId /\ now >= e.expiresAt))

\* variant: the sweep removes nothing
sweepExpiredAssignmentsNever(assignments, taskId) == assignments

\* sweepExpiredAssignments(db, taskId): the assignments left after the sweep
sweepExpiredAssignments(assignments, taskId) ==
  SelectSeq(assignments, LAMBDA e : ~(e.taskId = taskId /\ now > e.expiresAt))

RemoveAt(seq, i) == SubSeq(seq, 1, i - 1) \o SubSeq(seq, i + 1, Len(seq))

NoLease == [chunkIndex |-> NULL, assignedAt |-> 0]

RECURSIVE ResumeScan(_, _, _, _, _, _)
\* the resume lookup loop of next-chunk (lines 1421-1442), from the last entry
\* to the first: [assignments, existing]
ResumeScan(i, assignments, existing, results, taskId, workerId) ==
  IF i = 0 THEN [assignments |-> assignments, existing |-> existing]
  ELSE LET entry == assignments[i]
       IN IF entry.taskId # taskId \/ entry.workerId # workerId
          THEN ResumeScan(i - 1, assignments, existing, results, taskId, workerId)
          ELSE LET k == FindBucket(results, taskId, entry.chunkIndex)
               IN IF k # 0 /\ results[k].status \in FinishedStatuses
                  THEN ResumeScan(i - 1, RemoveAt(assignments, i), existing, results, taskId, workerId)
                  ELSE IF existing.chunkIndex = NULL
                  THEN ResumeScan(i - 1, assignments, entry, results, taskId, workerId)
                  ELSE IF entry.assignedAt < existing.assignedAt
                  THEN ResumeScan(i - 1, assignments, entry, results, taskId, workerId)
                  ELSE ResumeScan(i - 1, assignments, existing, results, taskId, workerId)

\* variant: the lookup never finds a lease to resume
ResumeLookupNone(assignments, results, taskId, workerId) ==
  [assignments |-> assignments, existing |-> NoLease]

ResumeLookup(assignments, results, taskId, workerId) ==
  ResumeScan(Len(assignments), assignments, NoLease, results, taskId, workerId)

\* variant: the index is the number of buckets processed so far
AllocateIndexByProcessed(task) ==
  [chunkIndex |-> task.processedChunks, next |-> task.nextChunkIndex + 1]

\* variant: the counter is not advanced
AllocateIndexStuck(task) == [chunkIndex |-> task.nextChunkIndex, next |-> task.nextChunkIndex]

\* the index given to a new lease and the counter after it (lines 1509-1510)
AllocateIndex(task) == [chunkIndex |-> task.nextChunkIndex, next |-> task.nextChunkIndex + 1]

\* ------------------------------------------------------------------- Init
InitStore ==
  /\ now = 0
  /\ workerHeartbeats = NoHeartbeats
  /\ tasks = EmptyFcn
  /\ nextTaskId = 1
  /\ chunkAssignments = <<>>
  /\ chunkResults = <<>>
  /\ users = EmptyFcn
  /\ walletTransactions = <<>>
  /\ platformLedger = [totalEarnings |-> 0]
  /\ held = [w \in Workers |-> [t \in TaskIds |-> NoGrant]]
  /\ mustReclaim = [t \in TaskIds |-> {}]
  /\ runner = NoRunner

\* the store as created at start-up, under either setting of the budget flag
\* and the default WALLET_SANDBOX_ENABLED
Init ==
  /\ DISABLE_BUDGET_CHECKS \in BOOLEAN
  /\ SANDBOX_WALLET_ENABLED = FALSE
  /\ InitStore

\* the same with the wallet sandbox switched on
InitLedger ==
  /\ DISABLE_BUDGET_CHECKS \in BOOLEAN
  /\ SANDBOX_WALLET_ENABLED = TRUE
  /\ InitStore

\* session middleware: an unknown session gets a seeded user and a seed-credit
SessionSeeded(s, seed) ==
  /\ s \notin DOMAIN users
  /\ Len(walletTransactions) < MaxTx
  /\ LET db0 == Store(users, walletTransactions, platformLedger)
         db1 == createUser(db0, s, seed)
         db2 == pushWalletTransaction(db1,
                  Tx(s, "seed-credit", db1.users[s].walletBalance,
                     db1.users[s].walletBalance, 0, NULL))
     IN /\ users' = db2.users
        /\ walletTransactions' = db2.walletTransactions
  /\ UNCHANGED <<DISABLE_BUDGET_CHECKS, SANDBOX_WALLET_ENABLED, workerHeartbeats, now, tasks, nextTaskId,
                 chunkAssignments, chunkResults, platformLedger, held, mustReclaim, runner>>

Session(s) == SessionSeeded(s, DEV_DEFAULT_WALLET)

\* manual deposits and withdrawals recorded so far
WalletOps == Len(SelectSeq(walletTransactions,
                 LAMBDA x : x.type \in {"wallet-deposit", "wallet-withdrawal"}))

\* POST /api/wallet/deposit: whether the request is accepted, and the store
\* it leaves
DepositOutcome(s, amount) ==
  LET normalized == normalizeCurrencyAmount(amount)
      db0 == Store(users, walletTransactions, platformLedger)
      accepted == ~NotPositive(normalized) /\ ~ExceedsLimit(normalized) /\ SANDBOX_WALLET_ENABLED
  IN [ok |-> accepted,
      db |-> IF accepted
             THEN adjustUserBalance(db0, s, InMicros(normalized), "wallet-deposit", 0, NULL)
             ELSE db0]

DepositBounded(s, amount, maxOps) ==
  /\ s \in DOMAIN users
  /\ Len(walletTransactions) < MaxTx
  /\ WalletOps < maxOps
  /\ \E o \in {DepositOutcome(s, amount)} :
        /\ users' = o.db.users
        /\ walletTransactions' = o.db.walletTransactions
  /\ UNCHANGED <<DISABLE_BUDGET_CHECKS, SANDBOX_WALLET_ENABLED, workerHeartbeats, now, tasks, nextTaskId,
                 chunkAssignments, chunkResults, platformLedger, held, mustReclaim, runner>>

Deposit(s, amount) == DepositBounded(s, AmountOf(amount), MaxWalletOps)

\* variant: a withdrawal that is not compared with the balance
WithdrawOutcomeUnchecked(s, amount) ==
  LET normalized == normalizeCurrencyAmount(amount)
      db0 == Store(users, walletTransactions, platformLedger)
      accepted == ~NotPositive(normalized) /\ ~ExceedsLimit(normalized) /\ SANDBOX_WALLET_ENABLED
  IN [ok |-> accepted,
      db |-> IF accepted
             THEN adjustUserBalance(db0, s, 0 - InMicros(normalized), "wallet-withdrawal", 0, NULL)
             ELSE db0]

\* POST /api/wallet/withdraw: whether the request is accepted, and the store
\* it leaves
WithdrawOutcome(s, amount) ==
  LET normalized == normalizeCurrencyAmount(amount)
      db0 == Store(users, walletTransactions, platformLedger)
      accepted == /\ ~NotPositive(normalized) /\ ~ExceedsLimit(normalized)
                  /\ SANDBOX_WALLET_ENABLED
                  /\ ~(InMicros(normalized) > users[s].walletBalance)
  IN [ok |-> accepted,
      db |-> IF accepted
             THEN adjustUserBalance(db0, s, 0 - InMicros(normalized), "wallet-withdrawal", 0, NULL)
             ELSE db0]

WithdrawBounded(s, amount, maxOps) ==
  /\ s \in DOMAIN users
  /\ Len(walletTransactions) < MaxTx
  /\ WalletOps < maxOps
  /\ \E o \in {WithdrawOutcome(s, amount)} :
        /\ users' = o.db.users
        /\ walletTransactions' = o.db.walletTransactions
  /\ UNCHANGED <<DISABLE_BUDGET_CHECKS, SANDBOX_WALLET_ENABLED, workerHeartbeats, now, tasks, nextTaskId,
                 chunkAssignments, chunkResults, platformLedger, held, mustReclaim, runner>>

Withdraw(s, amount) == WithdrawBounded(s, AmountOf(amount), MaxWalletOps)

\* POST /api/tasks: the record stored for a new task
NewTask(taskId, creator, cost, maxBillable, fee, items, maxBucketBytes) ==
  [id |-> taskId, creatorId |-> creator, status |-> "queued", revoked |-> FALSE,
   assignedWorkers |-> <<>>, items |-> items, totalItems |-> NULL,
   bucketConfig |-> [maxBuckets |-> maxBillable, maxBucketBytes |-> maxBucketBytes],
   totalChunks |-> maxBillable, maxBucketBytes |-> maxBucketBytes,
   nextChunkIndex |-> 0, costPerChunk |-> cost, budgetTotal |-> cost * maxBillable,
   maxBillableChunks |-> maxBillable, platformFeePercent |-> fee,
   budgetSpent |-> 0, chunksPaid |-> 0,
   processedChunks |-> 0, processedItems |-> 0, progress |-> 0]

\* POST /api/tasks while fewer than lastId tasks were created
CreateTaskUpTo(c, cost, maxBillable, fee, items, maxBucketBytes, lastId) ==
  /\ c \in DOMAIN users
  /\ nextTaskId \in TaskIds
  /\ nextTaskId <= lastId
  /\ LET budgetTotal == cost * maxBillable
         accepted == cost > 0 /\ ~(users[c].walletBalance < budgetTotal)
     IN /\ tasks' = IF accepted
                    THEN [t \in DOMAIN tasks \cup {nextTaskId} |->
                            IF t = nextTaskId
                            THEN NewTask(nextTaskId, c, cost, maxBillable, fee, items, maxBucketBytes)
                            ELSE tasks[t]]
                    ELSE tasks
        /\ nextTaskId' = IF accepted THEN nextTaskId + 1 ELSE nextTaskId
  /\ UNCHANGED <<DISABLE_BUDGET_CHECKS, SANDBOX_WALLET_ENABLED, workerHeartbeats, now, chunkAssignments,
                 chunkResults, users, walletTransactions, platformLedger, held, mustReclaim, runner>>

CreateTask(c, cost, maxBillable, fee, items, maxBucketBytes) ==
  CreateTaskUpTo(c, cost, maxBillable, fee, items, maxBucketBytes, SingleTask)

\* variant: a claim that does not look at the revoked flag
ClaimOutcomeOfRevoked(t, w) ==
  [ok |-> TRUE,
   task |-> [tasks[t] EXCEPT
               !.assignedWorkers = IF Includes(@, w) THEN @ ELSE Append(@, w),
               !.status = IF @ = "queued" THEN "processing" ELSE @],
   users |-> IF Includes(tasks[t].assignedWorkers, w) THEN users
             ELSE ensureWorkerUser(Store(users, walletTransactions, platformLedger), w).users]

\* POST /api/tasks/:taskId/claim after the not-found check: whether the claim
\* is accepted, and the task and the users it leaves
ClaimOutcome(t, w) ==
  IF tasks[t].revoked
  THEN [ok |-> FALSE, task |-> tasks[t], users |-> users]
  ELSE [ok |-> TRUE,
        task |-> [tasks[t] EXCEPT
                    !.assignedWorkers = IF Includes(@, w) THEN @ ELSE Append(@, w),
                    !.status = IF @ = "queued" THEN "processing" ELSE @],
        users |-> IF Includes(tasks[t].assignedWorkers, w) THEN users
                  ELSE ensureWorkerUser(Store(users, walletTransactions, platformLedger), w).users]

\* POST /api/tasks/:taskId/claim
Claim(t, w) ==
  /\ t \in DOMAIN tasks
  /\ \E o \in {ClaimOutcome(t, w)} :
        /\ tasks' = [tasks EXCEPT ![t] = o.task]
        /\ users' = o.users
        /\ mustReclaim' = IF o.ok THEN [mustReclaim EXCEPT ![t] = @ \ {w}] ELSE mustReclaim
  /\ UNCHANGED <<DISABLE_BUDGET_CHECKS, SANDBOX_WALLET_ENABLED, workerHeartbeats, now, nextTaskId,
                 chunkAssignments, chunkResults, walletTransactions, platformLedger, held, runner>>

\* variant: a drop that deletes every lease of the task
DropAllLeases(t, w) ==
  /\ t \in DOMAIN tasks
  /\ tasks' = [tasks EXCEPT ![t].assignedWorkers = SelectSeq(@, LAMBDA x : x # w)]
  /\ chunkAssignments' = SelectSeq(chunkAssignments, LAMBDA a : a.taskId # t)
  /\ UNCHANGED <<DISABLE_BUDGET_CHECKS, SANDBOX_WALLET_ENABLED, workerHeartbeats, now, nextTaskId,
                 chunkResults, users, walletTransactions, platformLedger, held, mustReclaim, runner>>

\* POST /api/tasks/:taskId/drop
Drop(t, w) ==
  /\ t \in DOMAIN tasks
  /\ tasks' = [tasks EXCEPT ![t].assignedWorkers = SelectSeq(@, LAMBDA x : x # w)]
  /\ chunkAssignments' = SelectSeq(chunkAssignments, LAMBDA a : ~(a.taskId = t /\ a.workerId = w))
  /\ UNCHANGED <<DISABLE_BUDGET_CHECKS, SANDBOX_WALLET_ENABLED, workerHeartbeats, now, nextTaskId,
                 chunkResults, users, walletTransactions, platformLedger, held, mustReclaim, runner>>

\* variant: revoke that leaves assignedWorkers as they are
RevokeKeepingWorkers(t) ==
  /\ t \in DOMAIN tasks
  /\ tasks' = [tasks EXCEPT ![t].revoked = TRUE]
  /\ chunkAssignments' = SelectSeq(chunkAssignments, LAMBDA a : a.taskId # t)
  /\ mustReclaim' = [mustReclaim EXCEPT ![t] = Workers]
  /\ UNCHANGED <<DISABLE_BUDGET_CHECKS, SANDBOX_WALLET_ENABLED, workerHeartbeats, now, nextTaskId,
                 chunkResults, users, walletTransactions, platformLedger, held, runner>>

\* variant: revoke that also discards the results of the task
RevokeDiscardingResults(t) ==
  /\ t \in DOMAIN tasks
  /\ tasks' = [tasks EXCEPT ![t].revoked = TRUE, ![t].assignedWorkers = <<>>]
  /\ chunkAssignments' = SelectSeq(chunkAssignments, LAMBDA a : a.taskId # t)
  /\ chunkResults' = SelectSeq(chunkResults, LAMBDA r : r.taskId # t)
  /\ mustReclaim' = [mustReclaim EXCEPT ![t] = Workers]
  /\ UNCHANGED <<DISABLE_BUDGET_CHECKS, SANDBOX_WALLET_ENABLED, workerHeartbeats, now, nextTaskId,
                 users, walletTransactions, platformLedger, held, runner>>

\* POST /api/tasks/:taskId/revoke
Revoke(t) ==
  /\ t \in DOMAIN tasks
  /\ tasks' = [tasks EXCEPT ![t].revoked = TRUE, ![t].assignedWorkers = <<>>]
  /\ chunkAssignments' = SelectSeq(chunkAssignments, LAMBDA a : a.taskId # t)
  /\ mustReclaim' = [mustReclaim EXCEPT ![t] = Workers]
  /\ UNCHANGED <<DISABLE_BUDGET_CHECKS, SANDBOX_WALLET_ENABLED, workerHeartbeats, now, nextTaskId,
                 chunkResults, users, walletTransactions, platformLedger, held, runner>>

\* POST /api/tasks/:taskId/reinvoke
Reinvoke(t) ==
  /\ t \in DOMAIN tasks
  /\ tasks' = [tasks EXCEPT ![t].revoked = FALSE]
  /\ UNCHANGED <<DISABLE_BUDGET_CHECKS, SANDBOX_WALLET_ENABLED, workerHeartbeats, now, nextTaskId,
                 chunkAssignments, chunkResults, users, walletTransactions,
                 platformLedger, held, mustReclaim, runner>>

\* variant: a delete that leaves the results of the task in the store
DeleteTaskKeepingResults(t) ==
  /\ t \in DOMAIN tasks
  /\ tasks' = [x \in DOMAIN tasks \ {t} |-> tasks[x]]
  /\ chunkAssignments' = SelectSeq(chunkAssignments, LAMBDA a : a.taskId # t)
  /\ UNCHANGED <<DISABLE_BUDGET_CHECKS, SANDBOX_WALLET_ENABLED, workerHeartbeats, now, nextTaskId,
                 chunkResults, users, walletTransactions, platformLedger, held, mustReclaim, runner>>

\* DELETE /api/tasks/:taskId
DeleteTask(t) ==
  /\ t \in DOMAIN tasks
  /\ tasks' = [x \in DOMAIN tasks \ {t} |-> tasks[x]]
  /\ chunkResults' = SelectSeq(chunkResults, LAMBDA r : r.taskId # t)
  /\ chunkAssignments' = SelectSeq(chunkAssignments, LAMBDA a : a.taskId # t)
  /\ UNCHANGED <<DISABLE_BUDGET_CHECKS, SANDBOX_WALLET_ENABLED, workerHeartbeats, now, nextTaskId,
                 users, walletTransactions, platformLedger, held, mustReclaim, runner>>

\* variant: the planner is told of no result
finishedRangesNone(results, taskId) == {}

\* the ranges next-chunk hands to the planner (lines 1500-1501)
finishedRanges(results, taskId) == collectRanges(TaskResults(results, taskId))

\* variant: the planner is told of no lease
assignedRangesNone(activeAssignments) == {}

assignedRanges(activeAssignments) == collectRanges(activeAssignments)

NewLease(taskId, chunkIndex, workerId, bucket) ==
  [taskId |-> taskId, chunkIndex |-> chunkIndex, workerId |-> workerId,
   assignedAt |-> now, expiresAt |-> now + BUCKET_TIMEOUT_MS,
   rangeStart |-> bucket.rangeStart, rangeEnd |-> bucket.rangeEnd,
   itemsCount |-> bucket.rangeEnd - bucket.rangeStart,
   processedCount |-> 0, progressRangeEnd |-> bucket.rangeStart,
   bytesUsed |-> bucket.bytesUsed]

Granted(resp, chunkIndex, rangeStart, rangeEnd, resume) ==
  [resp EXCEPT !.chunkIndex = chunkIndex, !.rangeStart = rangeStart,
               !.rangeEnd = rangeEnd, !.resume = resume]

\* a refusal of next-chunk: [task, assignments, resp]
Deny(t, w, task, assignments, msg) ==
  [task |-> task, assignments |-> assignments,
   resp |-> Response("next-chunk", t, w, FALSE, msg)]

\* the resume branch of next-chunk (lines 1452-1490)
ResumeResponse(t, w, task, assignments, existing) ==
  LET range == normalizeRange(existing, existing.chunkIndex)
      total == Len(task.items)
      safeStart == Max(0, Min(range.start, total))
      safeEnd0 == Max(safeStart, Min(range.end, total))
      fallbackCount == IF IsFinite(existing.itemsCount) THEN Max(1, existing.itemsCount) ELSE 1
      safeEnd == IF safeEnd0 <= safeStart THEN Min(total, safeStart + fallbackCount) ELSE safeEnd0
  IN [task |-> task,
      assignments |->
        [k \in 1..Len(assignments) |->
           IF assignments[k].taskId = t /\ assignments[k].chunkIndex = existing.chunkIndex
           THEN [assignments[k] EXCEPT !.expiresAt = now + BUCKET_TIMEOUT_MS]
           ELSE assignments[k]],
      resp |-> Granted(Response("next-chunk", t, w, TRUE, ""),
                       existing.chunkIndex, safeStart, safeEnd, TRUE)]

\* the new lease of next-chunk (lines 1503-1550), given the planner's answer
NextChunkGrant(t, w, task, assignments, bucket) ==
  IF ~bucket.found THEN Deny(t, w, WithBucketConfig(task, bucket.cfg), assignments, "no-chunk")
  ELSE [task |-> [WithBucketConfig(task, bucket.cfg) EXCEPT
                    !.nextChunkIndex = AllocateIndex(task).next,
                    !.status = "processing",
                    !.assignedWorkers = IF Includes(@, w) THEN @ ELSE Append(@, w)],
        assignments |-> Append(assignments,
                               NewLease(t, AllocateIndex(task).chunkIndex, w, bucket)),
        resp |-> Granted(Response("next-chunk", t, w, TRUE, ""),
                         AllocateIndex(task).chunkIndex, bucket.rangeStart,
                         bucket.rangeEnd, FALSE)]

\* variant: no budget check before the planner is asked
NextChunkFreshUnchecked(t, w, task, assignments, activeAssignments) ==
  NextChunkGrant(t, w, task, assignments,
                 calculateBucket(task, task.items, finishedRanges(chunkResults, t),
                                 assignedRanges(activeAssignments)))

\* next-chunk for a worker without a lease to resume (lines 1492-1501)
NextChunkFresh(t, w, task, assignments, activeAssignments) ==
  IF /\ ~DISABLE_BUDGET_CHECKS /\ task.maxBillableChunks > 0
     /\ task.chunksPaid + Len(activeAssignments) >= task.maxBillableChunks
  THEN Deny(t, w, task, assignments, "budget-exhausted")
  ELSE IF /\ ~DISABLE_BUDGET_CHECKS /\ task.creatorId \in DOMAIN users
          /\ users[task.creatorId].walletBalance < task.costPerChunk
  THEN Deny(t, w, task, assignments, "insufficient-funds")
  ELSE NextChunkGrant(t, w, task, assignments,
                      calculateBucket(task, task.items, finishedRanges(chunkResults, t),
                                      assignedRanges(activeAssignments)))

\* next-chunk after the resume lookup (lines 1444-1490); look = [assignments, existing]
NextChunkLooked(t, w, task, look) ==
  IF Len(task.items) = 0 THEN Deny(t, w, task, look.assignments, "no-data")
  ELSE IF look.existing.chunkIndex # NULL
  THEN ResumeResponse(t, w, ensureBucketConfig([task EXCEPT !.totalItems = Len(task.items)],
                                               task.items),
                      look.assignments, look.existing)
  ELSE NextChunkFresh(t, w, ensureBucketConfig([task EXCEPT !.totalItems = Len(task.items)],
                                               task.items),
                      look.assignments, TaskAssignments(look.assignments, t))

\* POST /api/worker/next-chunk after the not-found check:
\* [task, assignments, resp] as the handler leaves them
NextChunkOutcome(t, w) ==
  IF tasks[t].revoked THEN Deny(t, w, tasks[t], chunkAssignments, "revoked")
  ELSE IF ~Includes(tasks[t].assignedWorkers, w)
  THEN Deny(t, w, tasks[t], chunkAssignments, "not-assigned")
  ELSE NextChunkLooked(t, w, tasks[t],
                       ResumeLookup(sweepExpiredAssignments(chunkAssignments, t),
                                    chunkResults, t, w))

\* the worker takes up the bucket it is answered with: a bucket it does not
\* hold yet, or the bucket whose result post was answered with an error
TakesUp(t, w, resp) ==
  /\ resp.ok
  /\ resp.chunkIndex # held[w][t].chunkIndex \/ held[w][t].sent = "thrown"

\* next-chunk while the task has allocated fewer than maxIndex buckets
NextChunkBounded(t, w, maxIndex) ==
  /\ t \in DOMAIN tasks
  /\ \E o \in {NextChunkOutcome(t, w)} :
        /\ o.resp.ok /\ ~o.resp.resume => tasks[t].nextChunkIndex < maxIndex
        /\ tasks' = [tasks EXCEPT ![t] = o.task]
        /\ chunkAssignments' = o.assignments
        /\ held' = IF TakesUp(t, w, o.resp)
                   THEN [held EXCEPT ![w][t] = [chunkIndex |-> o.resp.chunkIndex,
                                                rangeStart |-> o.resp.rangeStart,
                                                rangeEnd |-> o.resp.rangeEnd,
                                                sent |-> "none"]]
                   ELSE held
  /\ UNCHANGED <<DISABLE_BUDGET_CHECKS, SANDBOX_WALLET_ENABLED, workerHeartbeats, now, nextTaskId,
                 chunkResults, users, walletTransactions, platformLedger, mustReclaim, runner>>

NextChunk(t, w) == NextChunkBounded(t, w, MaxChunkIndex)

\* the leases record-chunk leaves (lines 1616-1631): the lease of the bucket
\* and every lease of the task whose range equals the reported range go
ReleaseOnResult(assignments, t, chunkIndex, rangeStart, rangeEnd) ==
  SelectSeq(assignments, LAMBDA e :
    \/ e.taskId # t
    \/ /\ e.chunkIndex # chunkIndex
       /\ ~(/\ IsFinite(rangeStart) /\ IsFinite(rangeEnd)
            /\ normalizeRange(e, e.chunkIndex) = [start |-> rangeStart, end |-> rangeEnd]))

Overlap(a, b) == Max(0, Min(a.end, b.end) - Max(a.start, b.start))

\* the results record-chunk leaves (lines 1652-1664): results of other buckets
\* of the task that overlap the reported range go
DedupResults(results, t, chunkIndex, range) ==
  SelectSeq(results, LAMBDA r :
    \/ r.taskId # t
    \/ r.chunkIndex = chunkIndex
    \/ ~(/\ range # NoRange
         /\ normalizeRange(r, r.chunkIndex) # NoRange
         /\ Overlap(range, normalizeRange(r, r.chunkIndex)) > 0))

\* req.body.workerId || matchedAssignment?.workerId || existing?.workerId || null
resolvedWorkerId(bodyWorkerId, matchedAssignment, existing) ==
  IF bodyWorkerId # NoWorker THEN bodyWorkerId
  ELSE IF matchedAssignment # NoWorker THEN matchedAssignment
  ELSE existing

\* POST /api/worker/record-chunk for a task the store holds:
\* [task, assignments, results, db, payout, thrown] as the handler leaves them.
\* With no result stored for the bucket the handler builds a new one (lines
\* 1694-1713), and the object literal reads itemResultsTotal (line 1709), an
\* identifier that is declared nowhere: the read throws a ReferenceError, so
\* nothing is pushed, paid, recomputed or saved, and what the handler did
\* before (task.status, the released leases, the removed overlapping
\* results) stays in the store it mutated in place.
RecordChunkOutcome(t, chunkIndex, status, rangeStart, rangeEnd, itemsCount, workerId) ==
  LET task0 == [tasks[t] EXCEPT !.status = IF @ = "queued" THEN "processing" ELSE @]
      m == FindBucket(chunkAssignments, t, chunkIndex)
      matchedWorker == IF m = 0 THEN NoWorker ELSE chunkAssignments[m].workerId
      assignments1 == ReleaseOnResult(chunkAssignments, t, chunkIndex, rangeStart, rangeEnd)
      range == normalizeRange([rangeStart |-> rangeStart, rangeEnd |-> rangeEnd,
                               itemsCount |-> itemsCount], chunkIndex)
      resolvedItemsCount == IF IsFinite(itemsCount) THEN itemsCount
                            ELSE IF IsFinite(rangeStart) /\ IsFinite(rangeEnd)
                            THEN rangeEnd - rangeStart
                            ELSE NULL
      results1 == DedupResults(chunkResults, t, chunkIndex, range)
      k == FindBucket(results1, t, chunkIndex)
      worker == resolvedWorkerId(workerId, matchedWorker,
                                 IF k = 0 THEN NoWorker ELSE results1[k].workerId)
      stored == [results1[k] EXCEPT
                   !.status = status,
                   !.rangeStart = IF IsFinite(rangeStart) THEN rangeStart ELSE @,
                   !.rangeEnd = IF IsFinite(rangeEnd) THEN rangeEnd ELSE @,
                   !.itemsCount = IF resolvedItemsCount # NULL THEN resolvedItemsCount ELSE @,
                   !.processedItems = IF resolvedItemsCount # NULL THEN resolvedItemsCount ELSE 0,
                   !.workerId = IF worker # NoWorker THEN worker ELSE @]
      pay == issueChunkPayout(Store(users, walletTransactions, platformLedger),
                              task0, stored, worker)
      results2 == [results1 EXCEPT ![k] = pay.result]
  IN IF k = 0
     THEN [task |-> task0, assignments |-> assignments1, results |-> results1,
           db |-> Store(users, walletTransactions, platformLedger),
           payout |-> FALSE, thrown |-> TRUE]
     ELSE [task |-> computeProgress(pay.task, results2), assignments |-> assignments1,
           results |-> results2, db |-> pay.db, payout |-> pay.applied, thrown |-> FALSE]

\* the handler is async and nothing catches the rejection: the server either
\* goes on with the store the handler left, or the process ends on the
\* unhandled rejection and comes back with the store it last saved and an
\* empty heartbeat map
RecordChunkBounded(t, chunkIndex, status, rangeStart, rangeEnd, itemsCount, workerId, maxTx) ==
  /\ t \in DOMAIN tasks
  /\ \E o \in {RecordChunkOutcome(t, chunkIndex, status, rangeStart, rangeEnd, itemsCount, workerId)} :
        \/ /\ Len(o.db.walletTransactions) <= maxTx
           /\ tasks' = [tasks EXCEPT ![t] = o.task]
           /\ chunkAssignments' = o.assignments
           /\ chunkResults' = o.results
           /\ users' = o.db.users
           /\ walletTransactions' = o.db.walletTransactions
           /\ platformLedger' = o.db.platformLedger
           /\ UNCHANGED workerHeartbeats
        \/ /\ o.thrown
           /\ workerHeartbeats' = NoHeartbeats
           /\ UNCHANGED <<tasks, chunkAssignments, chunkResults, users,
                          walletTransactions, platformLedger>>
  /\ UNCHANGED <<DISABLE_BUDGET_CHECKS, SANDBOX_WALLET_ENABLED, now, nextTaskId, mustReclaim, runner>>

RecordChunk(t, chunkIndex, status, rangeStart, rangeEnd, itemsCount, workerId) ==
  RecordChunkBounded(t, chunkIndex, status, rangeStart, rangeEnd, itemsCount, workerId, MaxTx)

\* variant: the latest batch overwrites the stored count
MergeProcessedLatest(current, processed) == processed

\* processedItems of a result after a progress batch (lines 1861-1866)
MergeProcessed(current, processed) ==
  IF processed > (IF IsFinite(current) THEN current ELSE 0) THEN processed ELSE current

\* POST /api/worker/record-progress for a task the store holds:
\* [task, assignments, results] as the handler leaves them
RecordProgressOutcome(t, chunkIndex, workerId, rangeStart, itemsProcessed, totalItems) ==
  LET total == IF IsFinite(totalItems) THEN Max(0, totalItems) ELSE NULL
      processedRaw == Max(0, itemsProcessed)
      processed == IF total # NULL THEN Min(processedRaw, total) ELSE processedRaw
      m == FindBucket(chunkAssignments, t, chunkIndex)
      assignments1 ==
        IF m = 0 THEN chunkAssignments
        ELSE [chunkAssignments EXCEPT
                ![m].processedCount = processed,
                ![m].progressRangeEnd = IF IsFinite(rangeStart) THEN rangeStart + processed ELSE @,
                ![m].expiresAt = now + BUCKET_TIMEOUT_MS,
                ![m].workerId = IF workerId # NoWorker THEN workerId ELSE @]
      k == FindBucket(chunkResults, t, chunkIndex)
      entry == IF k # 0 THEN chunkResults[k]
               ELSE [taskId |-> t, chunkIndex |-> chunkIndex, status |-> "processing",
                     rangeStart |-> rangeStart, rangeEnd |-> rangeStart,
                     itemsCount |-> total, processedItems |-> processed,
                     workerId |-> NoWorker, payoutIssued |-> FALSE]
      candidateEnd == rangeStart + processed
      merged == [entry EXCEPT
                   !.status = IF @ # "completed" /\ @ # "failed" THEN "processing" ELSE @,
                   !.rangeStart = IF ~IsFinite(rangeStart) THEN @
                                  ELSE IF ~IsFinite(@) THEN rangeStart ELSE Min(@, rangeStart),
                   !.rangeEnd = IF IsFinite(rangeStart) /\ (~IsFinite(@) \/ candidateEnd > @)
                                THEN candidateEnd ELSE @,
                   !.itemsCount = IF total # NULL /\ total > (IF IsFinite(@) THEN @ ELSE 0)
                                  THEN total ELSE @,
                   !.processedItems = MergeProcessed(@, processed)]
      results1 == IF k # 0 THEN [chunkResults EXCEPT ![k] = merged]
                  ELSE Append(chunkResults, merged)
  IN [task |-> computeProgress(tasks[t], results1), assignments |-> assignments1,
      results |-> results1]

RecordProgress(t, chunkIndex, workerId, rangeStart, itemsProcessed, totalItems) ==
  /\ t \in DOMAIN tasks
  /\ \E o \in {RecordProgressOutcome(t, chunkIndex, workerId, rangeStart, itemsProcessed, totalItems)} :
        /\ tasks' = [tasks EXCEPT ![t] = o.task]
        /\ chunkAssignments' = o.assignments
        /\ chunkResults' = o.results
  /\ UNCHANGED <<DISABLE_BUDGET_CHECKS, SANDBOX_WALLET_ENABLED, workerHeartbeats, now, nextTaskId,
                 users, walletTransactions, platformLedger, mustReclaim, runner>>

\* what the runner remembers of its post: the status it reported, or that
\* the post was answered with an error (no result stored for the bucket)
Posted(t, chunkIndex, status) ==
  IF FindBucket(chunkResults, t, chunkIndex) = 0 THEN "thrown" ELSE status

\* the worker runner posts the terminal result of the bucket it was last
\* granted, possibly late and possibly again; after an error it goes on to
\* its next next-chunk call
WorkerRecordChunkBounded(w, t, status, maxTx) ==
  LET g == held[w][t]
  IN /\ g.chunkIndex # NULL
     /\ g.sent \in {"none", status}
     /\ RecordChunkBounded(t, g.chunkIndex, status, g.rangeStart, g.rangeEnd,
                           g.rangeEnd - g.rangeStart, w, maxTx)
     /\ held' = [held EXCEPT ![w][t].sent = Posted(t, g.chunkIndex, status)]

WorkerRecordChunk(w, t, status) == WorkerRecordChunkBounded(w, t, status, MaxTx)

\* the same post from a client that leaves workerId out of the body
AnonymousRecordChunk(w, t, status) ==
  LET g == held[w][t]
  IN /\ g.chunkIndex # NULL
     /\ g.sent \in {"none", status}
     /\ RecordChunk(t, g.chunkIndex, status, g.rangeStart, g.rangeEnd,
                    g.rangeEnd - g.rangeStart, NoWorker)
     /\ held' = [held EXCEPT ![w][t].sent = Posted(t, g.chunkIndex, status)]

\* the worker runner streams progress of the bucket it was last granted
WorkerRecordProgress(w, t, n) ==
  LET g == held[w][t]
  IN /\ g.chunkIndex # NULL
     /\ n <= g.rangeEnd - g.rangeStart
     /\ RecordProgress(t, g.chunkIndex, w, g.rangeStart, n, g.rangeEnd - g.rangeStart)
     /\ UNCHANGED held

\* the clock advances; only its distance to the leases' timestamps is read,
\* so it is advanced only while a lease exists
Tick ==
  /\ now < MaxTime
  /\ chunkAssignments # <<>>
  /\ now' = now + 1
  /\ UNCHANGED <<DISABLE_BUDGET_CHECKS, SANDBOX_WALLET_ENABLED, workerHeartbeats, tasks, nextTaskId,
                 chunkAssignments, chunkResults, users, walletTransactions,
                 platformLedger, held, mustReclaim, runner>>

\* dispatch: tasks, claims, leases, progress and results, with time passing
Next ==
  \/ \E s \in Sessions : Session(s)
  \/ \E c \in Customers, cost \in CostChoices, m \in MaxBillableChoices, f \in FeeChoices,
        items \in ItemsChoices, b \in BucketBytesChoices : CreateTask(c, cost, m, f, items, b)
  \/ \E t \in TaskIds, w \in Workers : Claim(t, w)
  \/ \E t \in TaskIds, w \in Workers : Drop(t, w)
  \/ \E t \in TaskIds : Revoke(t)
  \/ \E t \in TaskIds : Reinvoke(t)
  \/ \E t \in TaskIds : DeleteTask(t)
  \/ \E t \in TaskIds, w \in Workers : NextChunk(t, w)
  \/ \E w \in Workers, t \in TaskIds, st \in TerminalStatuses : WorkerRecordChunk(w, t, st)
  \/ \E w \in Workers, t \in TaskIds, n \in 1..MaxItems : WorkerRecordProgress(w, t, n)
  \/ Tick

Spec == Init /\ [][Next]_vars

\* accounting: one worker, wallet operations, fees, posts without workerId
NextLedger ==
  \/ \E s \in Sessions : Session(s)
  \/ \E s \in Sessions, a \in AmountChoices : Deposit(s, a)
  \/ \E s \in Sessions, a \in AmountChoices : Withdraw(s, a)
  \/ \E c \in Customers, cost \in CostChoices, m \in MaxBillableChoices, f \in LedgerFeeChoices,
        items \in ItemsChoices, b \in BucketBytesChoices : CreateTask(c, cost, m, f, items, b)
  \/ \E t \in TaskIds : Claim(t, LedgerWorker)
  \/ \E t \in TaskIds : Drop(t, LedgerWorker)
  \/ \E t \in TaskIds : NextChunk(t, LedgerWorker)
  \/ \E t \in TaskIds, st \in TerminalStatuses : WorkerRecordChunk(LedgerWorker, t, st)
  \/ \E t \in TaskIds, st \in TerminalStatuses : AnonymousRecordChunk(LedgerWorker, t, st)
  \/ \E t \in TaskIds, n \in 1..MaxItems : WorkerRecordProgress(LedgerWorker, t, n)

SpecLedger == InitLedger /\ [][NextLedger]_vars

\* ------------------------------------------------------------ worker churn
\* one worker keeps asking for buckets, flushes the progress of each and
\* posts its terminal result; the other leases a bucket, may stream progress,
\* and stops
GoodWorker == "w1"
ChurnWorker == "w2"
ChurnItemsChoices == {<<1, 1>>}

\* budget checks are off, so the budget never blocks an allocation
InitChurn ==
  /\ DISABLE_BUDGET_CHECKS = TRUE
  /\ SANDBOX_WALLET_ENABLED = FALSE
  /\ InitStore

\* the churning worker acts early only: whatever lease it leaves behind runs
\* out while the clock still advances
BeforeStop == now + BUCKET_TIMEOUT_MS < MaxTime

\* the runner flushes the progress of all items of its bucket
\* (flushProgress(true)) before it posts the result
RunnerFlushProgress(w, t) ==
  WorkerRecordProgress(w, t, held[w][t].rangeEnd - held[w][t].rangeStart)

\* the result post of a runner whose flush reached the server
RunnerRecordChunkBounded(w, t, status, maxTx) ==
  /\ FindBucket(chunkResults, t, held[w][t].chunkIndex) # 0
  /\ WorkerRecordChunkBounded(w, t, status, maxTx)

RunnerRecordChunk(w, t, status) == RunnerRecordChunkBounded(w, t, status, MaxTx)

NextChurn ==
  \/ \E s \in Sessions : Session(s)
  \/ \E c \in Customers, cost \in CostChoices, m \in MaxBillableChoices, f \in FeeChoices,
        items \in ChurnItemsChoices, b \in BucketBytesChoices : CreateTask(c, cost, m, f, items, b)
  \/ \E t \in TaskIds : Claim(t, GoodWorker)
  \/ \E t \in TaskIds : NextChunk(t, GoodWorker)
  \/ \E t \in TaskIds : RunnerFlushProgress(GoodWorker, t)
  \/ \E t \in TaskIds, st \in TerminalStatuses : RunnerRecordChunk(GoodWorker, t, st)
  \/ \E t \in TaskIds : BeforeStop /\ Claim(t, ChurnWorker)
  \/ \E t \in TaskIds : BeforeStop /\ NextChunk(t, ChurnWorker)
  \/ \E t \in TaskIds, n \in 1..MaxItems : BeforeStop /\ WorkerRecordProgress(ChurnWorker, t, n)
  \/ Tick

\* a next-chunk call of worker w would change the store or the worker's
\* grant: the enabling condition of <<NextChunk(t, w)>>_vars
NextChunkMoves(t, w) ==
  /\ t \in DOMAIN tasks
  /\ \E o \in {NextChunkOutcome(t, w)} :
       /\ o.resp.ok /\ ~o.resp.resume => tasks[t].nextChunkIndex < MaxChunkIndex
       /\ \/ o.task # tasks[t]
          \/ o.assignments # chunkAssignments
          \/ TakesUp(t, w, o.resp)

\* time passes, and the good worker claims, keeps calling next-chunk,
\* flushes the progress and posts the result of every bucket it is granted
\* (weak fairness of each; for next-chunk with the enabling condition
\* written out)
FairChurn ==
  /\ WF_vars(Tick)
  /\ \A t \in TaskIds : WF_vars(Claim(t, GoodWorker))
  /\ \A t \in TaskIds : \/ []<>(~NextChunkMoves(t, GoodWorker))
                        \/ []<><<NextChunk(t, GoodWorker)>>_vars
  /\ \A t \in TaskIds : WF_vars(RunnerFlushProgress(GoodWorker, t))
  /\ \A t \in TaskIds : WF_vars(\E st \in TerminalStatuses : RunnerRecordChunk(GoodWorker, t, st))

SpecChurn == InitChurn /\ [][NextChurn]_vars /\ FairChurn

\* ---------------------------------------------------------------- planner
\* the bucket planner over tasks of several shapes: items larger than the
\* configured bucket size, a missing bucket size, several bucket counts
PlannerItemsChoices == {<<1, 1, 1>>, <<2, 2>>, <<1, 3>>, <<1, 2, 5>>}
PlannerBytesChoices == {NULL, 1, 2}
PlannerMaxBillableChoices == {1, 4}
PlannerCostChoices == {MICRO \div 2}
PlannerStatuses == {"completed", "failed"}

\* budget checks are off (the default), so only the planner decides a grant
InitPlanner ==
  /\ DISABLE_BUDGET_CHECKS = TRUE
  /\ SANDBOX_WALLET_ENABLED = FALSE
  /\ InitStore

NextPlanner ==
  \/ \E s \in Sessions : Session(s)
  \/ \E c \in Customers, cost \in PlannerCostChoices, m \in PlannerMaxBillableChoices,
        f \in FeeChoices, items \in PlannerItemsChoices, b \in PlannerBytesChoices :
          CreateTask(c, cost, m, f, items, b)
  \/ \E t \in TaskIds, w \in Workers : Claim(t, w)
  \/ \E t \in TaskIds, w \in Workers : Drop(t, w)
  \/ \E t \in TaskIds, w \in Workers : NextChunk(t, w)
  \/ \E w \in Workers, t \in TaskIds, st \in PlannerStatuses : WorkerRecordChunk(w, t, st)
  \/ \E w \in Workers, t \in TaskIds, n \in 1..MaxItems : WorkerRecordProgress(w, t, n)

SpecPlanner == InitPlanner /\ [][NextPlanner]_vars

\* ----------------------------------------------------------------- budget
\* budget checks switched on, a task of three one-item buckets of which two
\* are billable
BudgetCostChoices == {MICRO}
BudgetMaxBillableChoices == {2}
BudgetBytesChoices == {1}

InitBudget ==
  /\ DISABLE_BUDGET_CHECKS = FALSE
  /\ SANDBOX_WALLET_ENABLED = FALSE
  /\ InitStore

NextBudget ==
  \/ \E s \in Sessions : Session(s)
  \/ \E c \in Customers, cost \in BudgetCostChoices, m \in BudgetMaxBillableChoices,
        f \in FeeChoices, items \in ItemsChoices, b \in BudgetBytesChoices :
          CreateTask(c, cost, m, f, items, b)
  \/ \E t \in TaskIds, w \in Workers : Claim(t, w)
  \/ \E t \in TaskIds, w \in Workers : Drop(t, w)
  \/ \E t \in TaskIds, w \in Workers : NextChunk(t, w)
  \/ \E w \in Workers, t \in TaskIds, st \in TerminalStatuses : WorkerRecordChunk(w, t, st)
  \/ \E w \in Workers, t \in TaskIds, n \in 1..MaxItems : WorkerRecordProgress(w, t, n)
  \/ Tick

SpecBudget == InitBudget /\ [][NextBudget]_vars

\* -------------------------------------------------------- worker liveness
\* POST /api/worker/heartbeat
Heartbeat(w) ==
  /\ workerHeartbeats' = [workerHeartbeats EXCEPT ![w] = now]
  /\ UNCHANGED <<DISABLE_BUDGET_CHECKS, SANDBOX_WALLET_ENABLED, now, tasks, nextTaskId,
                 chunkAssignments, chunkResults, users, walletTransactions,
                 platformLedger, held, mustReclaim, runner>>

\* GET /api/worker/online/:workerId: an entry older than the window is
\* forgotten
OnlineCheck(w) ==
  /\ workerHeartbeats' =
       IF workerHeartbeats[w] # NULL /\ now - workerHeartbeats[w] > WORKER_TIMEOUT_MS
       THEN [workerHeartbeats EXCEPT ![w] = NULL]
       ELSE workerHeartbeats
  /\ UNCHANGED <<DISABLE_BUDGET_CHECKS, SANDBOX_WALLET_ENABLED, now, tasks, nextTaskId,
                 chunkAssignments, chunkResults, users, walletTransactions,
                 platformLedger, held, mustReclaim, runner>>

\* the interval callback: entries older than twice the window are forgotten
PruneHeartbeats ==
  /\ workerHeartbeats' =
       [w \in Workers |->
          IF workerHeartbeats[w] # NULL /\ workerHeartbeats[w] < now - WORKER_TIMEOUT_MS * 2
          THEN NULL ELSE workerHeartbeats[w]]
  /\ UNCHANGED <<DISABLE_BUDGET_CHECKS, SANDBOX_WALLET_ENABLED, now, tasks, nextTaskId,
                 chunkAssignments, chunkResults, users, walletTransactions,
                 platformLedger, held, mustReclaim, runner>>

\* the clock advances, with or without a lease
TickIdle ==
  /\ now < MaxHeartbeatTime
  /\ now' = now + 1
  /\ UNCHANGED <<DISABLE_BUDGET_CHECKS, SANDBOX_WALLET_ENABLED, workerHeartbeats, tasks,
                 nextTaskId, chunkAssignments, chunkResults, users, walletTransactions,
                 platformLedger, held, mustReclaim, runner>>

InitHeartbeat ==
  /\ DISABLE_BUDGET_CHECKS = TRUE
  /\ SANDBOX_WALLET_ENABLED = FALSE
  /\ InitStore

\* workers that claim, lease, flush and post, and send heartbeats or not
NextHeartbeat ==
  \/ \E s \in Sessions : Session(s)
  \/ \E c \in Customers, cost \in CostChoices, m \in MaxBillableChoices, f \in FeeChoices,
        items \in ItemsChoices, b \in BucketBytesChoices : CreateTask(c, cost, m, f, items, b)
  \/ \E t \in TaskIds, w \in Workers : Claim(t, w)
  \/ \E t \in TaskIds, w \in Workers : NextChunk(t, w)
  \/ \E t \in TaskIds, w \in Workers : RunnerFlushProgress(w, t)
  \/ \E t \in TaskIds, w \in Workers : RunnerRecordChunk(w, t, "completed")
  \/ \E w \in Workers : Heartbeat(w)
  \/ \E w \in Workers : OnlineCheck(w)
  \/ PruneHeartbeats
  \/ TickIdle

SpecHeartbeat == InitHeartbeat /\ [][NextHeartbeat]_vars

\* ---------------------------------------------------------- task lifecycle
\* a task that workers lease, drop, stream and complete while the customer
\* revokes and reinvokes it; three buckets may be allocated
InitLifecycle ==
  /\ DISABLE_BUDGET_CHECKS = TRUE
  /\ SANDBOX_WALLET_ENABLED = FALSE
  /\ InitStore

NextLifecycle ==
  \/ \E s \in Sessions : Session(s)
  \/ \E c \in Customers, cost \in CostChoices, m \in MaxBillableChoices, f \in FeeChoices,
        items \in ItemsChoices, b \in BucketBytesChoices : CreateTask(c, cost, m, f, items, b)
  \/ \E t \in TaskIds, w \in Workers : Claim(t, w)
  \/ \E t \in TaskIds, w \in Workers : Drop(t, w)
  \/ \E t \in TaskIds : Revoke(t)
  \/ \E t \in TaskIds : Reinvoke(t)
  \/ \E t \in TaskIds, w \in Workers : NextChunkBounded(t, w, MaxLifecycleIndex)
  \/ \E t \in TaskIds, w \in Workers : RunnerFlushProgress(w, t)
  \/ \E t \in TaskIds, w \in Workers : RunnerRecordChunk(w, t, "completed")

SpecLifecycle == InitLifecycle /\ [][NextLifecycle]_vars

\* ------------------------------------------------------- progress requests
\* POST /api/worker/record-progress with workerId w in the body and the
\* chunkIndex of the i-th stored lease, whoever was granted it: the handler
\* looks the lease up by (taskId, chunkIndex) alone
ProgressNaming(w, t, i) ==
  /\ i \in 1..Len(chunkAssignments)
  /\ chunkAssignments[i].taskId = t
  /\ RecordProgress(t, chunkAssignments[i].chunkIndex, w, chunkAssignments[i].rangeStart,
                    1, chunkAssignments[i].rangeEnd - chunkAssignments[i].rangeStart)
  /\ UNCHANGED held

\* leases granted, dropped and expiring, with progress requests of any body
NextProgress ==
  \/ \E s \in Sessions : Session(s)
  \/ \E c \in Customers, cost \in CostChoices, m \in MaxBillableChoices, f \in FeeChoices,
        items \in ItemsChoices, b \in BucketBytesChoices : CreateTask(c, cost, m, f, items, b)
  \/ \E t \in TaskIds, w \in Workers : Claim(t, w)
  \/ \E t \in TaskIds, w \in Workers : Drop(t, w)
  \/ \E t \in TaskIds, w \in Workers : NextChunk(t, w)
  \/ \E t \in TaskIds, w \in Workers, i \in 1..MaxChunkIndex : ProgressNaming(w, t, i)
  \/ Tick

SpecProgress == InitLifecycle /\ [][NextProgress]_vars

\* ---------------------------------------------------------- deletion runs
\* the last id created in the two-task runs
TwoTasks == 2

\* a request naming a task that is not in the store: the handler answers 404
\* "Task not found" and returns before it writes (lines 1404-1405, 1608-1609,
\* 1785-1787)
TaskNotFound(t) ==
  /\ t \notin DOMAIN tasks
  /\ UNCHANGED vars

\* the answer of next-chunk, the not-found check included
NextChunkAnswer(t, w) ==
  IF t \notin DOMAIN tasks THEN Response("next-chunk", t, w, FALSE, "Task not found")
  ELSE NextChunkOutcome(t, w).resp

\* the worker requests, for a task in the store or not
NextChunkRequest(t, w) == NextChunk(t, w) \/ TaskNotFound(t)
RecordProgressRequest(w, t) ==
  RunnerFlushProgress(w, t) \/ (held[w][t].chunkIndex # NULL /\ TaskNotFound(t))
RecordChunkRequest(w, t, status) ==
  RunnerRecordChunk(w, t, status) \/ (held[w][t].chunkIndex # NULL /\ TaskNotFound(t))

\* two tasks of one customer, worked on by one worker and deleted in any order
NextDeletion ==
  \/ \E s \in Sessions : Session(s)
  \/ \E c \in Customers, cost \in CostChoices, m \in MaxBillableChoices, f \in FeeChoices,
        items \in ItemsChoices, b \in BucketBytesChoices :
          CreateTaskUpTo(c, cost, m, f, items, b, TwoTasks)
  \/ \E t \in TaskIds : Claim(t, LedgerWorker)
  \/ \E t \in TaskIds : DeleteTask(t)
  \/ \E t \in TaskIds : NextChunkRequest(t, LedgerWorker)
  \/ \E t \in TaskIds : RecordProgressRequest(LedgerWorker, t)
  \/ \E t \in TaskIds : RecordChunkRequest(LedgerWorker, t, "completed")

SpecDeletion == InitLifecycle /\ [][NextDeletion]_vars

\* -------------------------------------------------------- settlement runs
\* a task of ten items in buckets of two, at 2 credits a bucket with five
\* billable buckets and a fee of 10 percent, for a customer seeded with 20
\* credits
SettlementItems == <<1, 1, 1, 1, 1, 1, 1, 1, 1, 1>>
SettlementBucketBytes == 2
SettlementCost == 2 * MICRO
SettlementBuckets == 5
SettlementFee == 10
SettlementWallet == 20 * MICRO
\* rows of the log: the seed-credit and three rows for each bucket
SettlementTx == 1 + 3 * SettlementBuckets

InitSettlement ==
  /\ DISABLE_BUDGET_CHECKS \in BOOLEAN
  /\ SANDBOX_WALLET_ENABLED = FALSE
  /\ InitStore

\* two runners that claim the task and work through it: next-chunk, progress
\* flush, result post
NextSettlement ==
  \/ \E s \in Sessions : SessionSeeded(s, SettlementWallet)
  \/ \E c \in Customers :
        CreateTask(c, SettlementCost, SettlementBuckets, SettlementFee, SettlementItems,
                   SettlementBucketBytes)
  \/ \E t \in TaskIds, w \in Workers : Claim(t, w)
  \/ \E t \in TaskIds, w \in Workers : NextChunkBounded(t, w, SettlementBuckets)
  \/ \E t \in TaskIds, w \in Workers : RunnerFlushProgress(w, t)
  \/ \E t \in TaskIds, w \in Workers :
        RunnerRecordChunkBounded(w, t, "completed", SettlementTx)

SpecSettlement == InitSettlement /\ [][NextSettlement]_vars

\* ---------------------------------------------------------- oversize runs
\* 1024 * 1024 bytes, the default bucket size
MiB == DEFAULT_BUCKET_BYTES
\* tasks of one item whose serialised length lies around 4 MiB and 8 MiB
OversizeItemsChoices ==
  {<<MiB>>, <<4 * MiB - 1>>, <<4 * MiB>>, <<4 * MiB + 2>>, <<8 * MiB>>, <<8 * MiB + 2>>}
OversizeBytesChoices == {MiB, 2 * MiB}
OversizeMaxBuckets == {1, 3, 8}
\* a cost that a seed of 2 credits covers for eight billable buckets
OversizeCost == MICRO \div 4

NextOversize ==
  \/ \E s \in Sessions : Session(s)
  \/ \E c \in Customers, m \in OversizeMaxBuckets, f \in FeeChoices,
        items \in OversizeItemsChoices, b \in OversizeBytesChoices :
          CreateTask(c, OversizeCost, m, f, items, b)
  \/ \E t \in TaskIds, w \in Workers : Claim(t, w)
  \/ \E t \in TaskIds, w \in Workers : NextChunk(t, w)
  \/ \E t \in TaskIds, w \in Workers : RunnerFlushProgress(w, t)
  \/ \E t \in TaskIds, w \in Workers : RunnerRecordChunk(w, t, "completed")

SpecOversize == InitLifecycle /\ [][NextOversize]_vars

\* ------------------------------------------------------------ orphan runs
OrphanMaxBillableChoices == {1, 2}
\* a store loaded from a file that holds a task but no users (the users
\* collection is created empty when the file has none, line 246): the
\* creator of the task has no account until its session makes a request
InitOrphan ==
  /\ DISABLE_BUDGET_CHECKS \in BOOLEAN
  /\ SANDBOX_WALLET_ENABLED = FALSE
  /\ now = 0
  /\ workerHeartbeats = NoHeartbeats
  /\ \E c \in Customers, cost \in CostChoices, m \in OrphanMaxBillableChoices,
        f \in LedgerFeeChoices, items \in ItemsChoices, b \in BucketBytesChoices :
          tasks = [t \in {SingleTask} |-> NewTask(SingleTask, c, cost, m, f, items, b)]
  /\ nextTaskId = SingleTask + 1
  /\ chunkAssignments = <<>>
  /\ chunkResults = <<>>
  /\ users = EmptyFcn
  /\ walletTransactions = <<>>
  /\ platformLedger = [totalEarnings |-> 0]
  /\ held = [w \in Workers |-> [t \in TaskIds |-> NoGrant]]
  /\ mustReclaim = [t \in TaskIds |-> {}]
  /\ runner = NoRunner

NextOrphan ==
  \/ \E s \in Sessions : Session(s)
  \/ \E t \in TaskIds, w \in Workers : Claim(t, w)
  \/ \E t \in TaskIds, w \in Workers : NextChunk(t, w)
  \/ \E t \in TaskIds, w \in Workers : RunnerFlushProgress(w, t)
  \/ \E t \in TaskIds, w \in Workers : WorkerRecordChunk(w, t, "completed")

SpecOrphan == InitOrphan /\ [][NextOrphan]_vars

\* ------------------------------------------------------------ runner loop
\* processTask of the worker runner, from its first next-chunk request on.
\* The backend is seen through its answers: what next-chunk, record-progress
\* and record-chunk can answer a request of the runner, or no answer at all
\* (fetch rejects).
NextChunkRefusals == {"not-assigned", "revoked", "budget-exhausted", "insufficient-funds"}
NextChunkReplies ==
  {"bucket", "no-chunk", "http-400", "http-404", "fetch-error"} \cup NextChunkRefusals
ProgressReplies == {"ok", "http-404", "http-500", "fetch-error"}
RecordChunkReplies == {"ok", "http-404", "fetch-error"}

\* the loop at its first iteration: idleIterations = 0, nothing granted;
\* call and reply are the last request and its answer, notFound and
\* postedAfterNotFound record what the run has seen
RunnerStart ==
  [pc |-> "next-chunk", idleIterations |-> 0, abortTask |-> FALSE, granted |-> 0,
   totalItems |-> 0, itemResults |-> 0, progressBuffer |-> 0,
   call |-> "none", reply |-> "none", notFound |-> FALSE, postedAfterNotFound |-> FALSE]

\* variant: a no-chunk answer is not counted
NoChunkUncounted(r) == r

\* a no-chunk answer (lines 300-308): count it, give up at the limit
NoChunk(r) ==
  [r EXCEPT !.idleIterations = @ + 1,
            !.pc = IF r.idleIterations + 1 >= NO_CHUNK_MAX_RETRIES THEN "stopped" ELSE "next-chunk"]

\* the runner after the answer to next-chunk (lines 283-334); n is the
\* number of items of a granted bucket
AfterNextChunk(r, reply, n) ==
  LET r1 == [r EXCEPT !.call = "next-chunk", !.reply = reply,
                      !.notFound = @ \/ reply = "http-404"]
  IN IF reply = "bucket"
     THEN [r1 EXCEPT !.idleIterations = 0, !.pc = "items", !.granted = @ + 1,
                     !.totalItems = n, !.itemResults = 0, !.progressBuffer = 0,
                     !.abortTask = FALSE]
     ELSE IF reply = "no-chunk" THEN NoChunk(r1)
     ELSE [r1 EXCEPT !.pc = "stopped"]

\* flushProgress(force) (lines 353-382): a batch is posted when the buffer
\* is not empty and either forced or full; a 404 sets abortTask
FlushPosts(r, force) ==
  ~r.abortTask /\ r.progressBuffer > 0 /\ (force \/ r.progressBuffer >= PROGRESS_BATCH_SIZE)

flushProgress(r, force, reply) ==
  IF r.abortTask THEN [r EXCEPT !.progressBuffer = 0]
  ELSE IF ~FlushPosts(r, force) THEN r
  ELSE [r EXCEPT !.progressBuffer = 0, !.call = "record-progress", !.reply = reply,
                 !.abortTask = reply = "http-404",
                 !.notFound = @ \/ reply = "http-404"]

\* one item of the bucket (lines 397-475): its result is buffered, the
\* buffer is flushed when full or at the last item, the item loop ends when
\* the task is gone
AfterItem(r, reply) ==
  LET r1 == [r EXCEPT !.itemResults = @ + 1, !.progressBuffer = @ + 1]
      shouldForceFlush == r1.progressBuffer >= PROGRESS_BATCH_SIZE
                          \/ r1.itemResults = r1.totalItems
      r2 == flushProgress(r1, shouldForceFlush, reply)
  IN [r2 EXCEPT !.pc = IF r2.abortTask \/ r2.itemResults = r2.totalItems
                       THEN "flush" ELSE "items"]

\* after the item loop (lines 477-481): flushProgress(true), then leave the
\* task loop if the task is gone
AfterFinalFlush(r, reply) ==
  LET r1 == flushProgress(r, TRUE, reply)
  IN [r1 EXCEPT !.pc = IF r1.abortTask THEN "stopped" ELSE "record-chunk"]

\* the result post and its answer (lines 513-544)
AfterRecordChunk(r, reply) ==
  [r EXCEPT !.call = "record-chunk", !.reply = reply,
            !.postedAfterNotFound = @ \/ r.notFound,
            !.notFound = @ \/ reply = "http-404",
            !.abortTask = @ \/ reply = "http-404",
            !.pc = IF reply = "ok" THEN "next-chunk" ELSE "stopped"]

RunnerFrame ==
  UNCHANGED <<DISABLE_BUDGET_CHECKS, SANDBOX_WALLET_ENABLED, now, tasks, nextTaskId,
              chunkAssignments, chunkResults, users, walletTransactions,
              platformLedger, workerHeartbeats, held, mustReclaim>>

RunnerNextChunk(reply, n) ==
  /\ runner.pc = "next-chunk"
  /\ reply = "bucket" => runner.granted < MaxGrants
  /\ runner' = AfterNextChunk(runner, reply, n)
  /\ RunnerFrame

RunnerItem(reply) ==
  /\ runner.pc = "items"
  /\ runner' = AfterItem(runner, reply)
  /\ RunnerFrame

RunnerFinalFlush(reply) ==
  /\ runner.pc = "flush"
  /\ runner' = AfterFinalFlush(runner, reply)
  /\ RunnerFrame

RunnerPostResult(reply) ==
  /\ runner.pc = "record-chunk"
  /\ runner' = AfterRecordChunk(runner, reply)
  /\ RunnerFrame

InitRunner ==
  /\ DISABLE_BUDGET_CHECKS = TRUE
  /\ SANDBOX_WALLET_ENABLED = FALSE
  /\ now = 0
  /\ workerHeartbeats = NoHeartbeats
  /\ tasks = EmptyFcn
  /\ nextTaskId = 1
  /\ chunkAssignments = <<>>
  /\ chunkResults = <<>>
  /\ users = EmptyFcn
  /\ walletTransactions = <<>>
  /\ platformLedger = [totalEarnings |-> 0]
  /\ held = [w \in Workers |-> [t \in TaskIds |-> NoGrant]]
  /\ mustReclaim = [t \in TaskIds |-> {}]
  /\ runner = RunnerStart

NextRunner ==
  \/ \E reply \in NextChunkReplies, n \in 1..MaxBucketItems : RunnerNextChunk(reply, n)
  \/ \E reply \in ProgressReplies : RunnerItem(reply)
  \/ \E reply \in ProgressReplies : RunnerFinalFlush(reply)
  \/ \E reply \in RecordChunkReplies : RunnerPostResult(reply)

\* every request of the runner is answered or fails, and its timers fire
FairRunner == WF_vars(NextRunner)

SpecRunner == InitRunner /\ [][NextRunner]_vars /\ FairRunner

\* the answers to next-chunk and record-chunk after which the loop is left
\* at once: a refusal, a status outside 2xx, a request that failed
StopsNextChunk == NextChunkRefusals \cup {"http-400", "http-404", "fetch-error"}

RunnerBounded ==
  /\ runner.idleIterations <= NO_CHUNK_MAX_RETRIES
  /\ runner.idleIterations = NO_CHUNK_MAX_RETRIES => runner.pc = "stopped"
  /\ ~runner.postedAfterNotFound
  /\ runner.pc = "record-chunk" => ~runner.notFound /\ ~runner.abortTask

RunnerStops ==
  /\ runner.pc = "next-chunk" /\ runner' # runner =>
       /\ runner'.reply \in StopsNextChunk => runner'.pc = "stopped"
       /\ runner'.reply = "no-chunk" =>
            /\ runner'.idleIterations = runner.idleIterations + 1
            /\ runner'.pc = "stopped" <=> runner'.idleIterations = NO_CHUNK_MAX_RETRIES
       /\ runner'.reply = "bucket" => runner'.idleIterations = 0 /\ runner'.pc = "items"
  /\ runner.pc = "record-chunk" /\ runner' # runner =>
       /\ runner'.call = "record-chunk"
       /\ runner'.reply # "ok" => runner'.pc = "stopped"
  /\ runner.pc \in {"items", "flush"} /\ runner'.abortTask =>
       /\ runner'.pc \in {"flush", "stopped"}
       /\ runner.pc = "flush" => runner'.pc = "stopped"
  /\ runner.pc = "flush" /\ runner.abortTask => runner'.call = runner.call /\ runner'.reply = runner.reply
  /\ runner.pc = "stopped" => runner' = runner

\* C36: the runner's task loop ends. A no-chunk answer adds one to
\* idleIterations and the loop is left when the count reaches
\* NO_CHUNK_MAX_RETRIES, a granted bucket sets the count to 0; a refusal
\* (not-assigned, revoked, budget-exhausted, insufficient-funds), a status
\* outside 2xx or a failed request at next-chunk or record-chunk leaves the
\* loop at once; a 404 to a progress batch ends the bucket without any
\* further request, and no result is posted once any answer was a 404.
C36_RunnerLoopTerminates ==
  /\ []RunnerBounded
  /\ [][RunnerStops]_vars
  /\ <>(runner.pc = "stopped")

\* the loop gave up after NO_CHUNK_MAX_RETRIES no-chunk answers in a row that
\* followed two granted buckets
C36_GaveUpAfterGrants ==
  /\ runner.pc = "stopped"
  /\ runner.granted = MaxGrants
  /\ runner.reply = "no-chunk"
  /\ runner.idleIterations = NO_CHUNK_MAX_RETRIES

\* --------------------------------------------------------- reporting runs
\* one worker reports progress of its bucket more often than the lease
\* period: the clock does not advance past a lease of this worker that was
\* not renewed (or granted) at the current time.  The other worker reports
\* when it likes, and both post their results when they like.
Reporter == "w1"

ReporterLeases ==
  {i \in 1..Len(chunkAssignments) : chunkAssignments[i].workerId = Reporter}

ReportedInTime ==
  \A i \in ReporterLeases : chunkAssignments[i].expiresAt = now + BUCKET_TIMEOUT_MS

TickReported == ReportedInTime /\ Tick

InitReporting ==
  /\ DISABLE_BUDGET_CHECKS = TRUE
  /\ SANDBOX_WALLET_ENABLED = FALSE
  /\ InitStore

NextReporting ==
  \/ \E s \in Sessions : Session(s)
  \/ \E c \in Customers, cost \in CostChoices, m \in MaxBillableChoices, f \in FeeChoices,
        items \in ItemsChoices, b \in BucketBytesChoices : CreateTask(c, cost, m, f, items, b)
  \/ \E t \in TaskIds, w \in Workers : Claim(t, w)
  \/ \E t \in TaskIds, w \in Workers : NextChunkBounded(t, w, MaxLifecycleIndex)
  \/ \E w \in Workers, t \in TaskIds, n \in 1..MaxItems : WorkerRecordProgress(w, t, n)
  \/ \E w \in Workers, t \in TaskIds, st \in TerminalStatuses : WorkerRecordChunk(w, t, st)
  \/ TickReported

SpecReporting == InitReporting /\ [][NextReporting]_vars

\* ------------------------------------------------------------ wallet runs
\* amounts of the wallet requests: negative, zero, below half a cent, whole
\* credits, a fraction above a whole amount, and amounts over the limit
WalletAmountChoices ==
  {Amount(-1, 0), Amount(0, 0), Amount(0, 4000), Amount(1, 0), Amount(2, 0),
   Amount(2, 4000), Amount(3, 0), Amount(DepositLimit, 10000), Amount(DepositLimit + 1, 0)}

\* the store at start-up under either setting of both flags
InitWallet ==
  /\ DISABLE_BUDGET_CHECKS \in BOOLEAN
  /\ SANDBOX_WALLET_ENABLED \in BOOLEAN
  /\ InitStore

\* deposits and withdrawals of any amount, beside one worker that is paid
NextWallet ==
  \/ \E s \in Sessions : Session(s)
  \/ \E s \in Sessions, a \in WalletAmountChoices : DepositBounded(s, a, MaxWalletRuns)
  \/ \E s \in Sessions, a \in WalletAmountChoices : WithdrawBounded(s, a, MaxWalletRuns)
  \/ \E c \in Customers, cost \in CostChoices, m \in MaxBillableChoices, f \in FeeChoices,
        items \in ItemsChoices, b \in BucketBytesChoices : CreateTask(c, cost, m, f, items, b)
  \/ \E t \in TaskIds : Claim(t, LedgerWorker)
  \/ \E t \in TaskIds : NextChunk(t, LedgerWorker)
  \/ \E t \in TaskIds : RunnerFlushProgress(LedgerWorker, t)
  \/ \E t \in TaskIds : RunnerRecordChunk(LedgerWorker, t, "completed")

SpecWallet == InitWallet /\ [][NextWallet]_vars

\* ------------------------------------------------------------ properties
\* the bucket index and item range of a stored result or lease
Span(e) == [chunkIndex |-> e.chunkIndex, start |-> e.rangeStart, end |-> e.rangeEnd]
ResultSpans(t) ==
  {Span(chunkResults[i]) : i \in {k \in 1..Len(chunkResults) : chunkResults[k].taskId = t}}
\* leases that have not run out
ActiveLeaseSpans(t) ==
  {Span(chunkAssignments[i]) :
     i \in {k \in 1..Len(chunkAssignments) :
              chunkAssignments[k].taskId = t /\ now <= chunkAssignments[k].expiresAt}}
RangesMeet(a, b) == Overlap(a, b) > 0

\* the lease of bucket c of task t held by worker w, if stored and not run out
LiveLeaseOf(t, c, w) ==
  \E i \in 1..Len(chunkAssignments) :
    /\ chunkAssignments[i].taskId = t
    /\ chunkAssignments[i].chunkIndex = c
    /\ chunkAssignments[i].workerId = w
    /\ now <= chunkAssignments[i].expiresAt

\* the transactions whose meta names bucket c of task t
TxOfBucket(t, c) ==
  SelectSeq(walletTransactions, LAMBDA x : x.taskId = t /\ x.chunkIndex = c)
TxOfType(txs, type) == SelectSeq(txs, LAMBDA x : x.type = type)
\* the transactions recorded for user u
TxOfUser(txs, u) == SelectSeq(txs, LAMBDA x : x.userId = u)

RECURSIVE SumAmounts(_)
SumAmounts(txs) ==
  IF txs = <<>> THEN 0 ELSE txs[Len(txs)].amount + SumAmounts(SubSeq(txs, 1, Len(txs) - 1))

\* C1: for every task, the item ranges of its stored results and of its
\* active leases are pairwise disjoint across distinct bucket indices.
C1_RangesDisjoint ==
  \A t \in DOMAIN tasks :
    \A a, b \in ResultSpans(t) \cup ActiveLeaseSpans(t) :
      a.chunkIndex # b.chunkIndex => ~RangesMeet(a, b)

\* C2: leases are exclusive: two stored leases of one task never carry the
\* same bucket index and never have overlapping item ranges.
C2_LeasesExclusive ==
  \A i, j \in 1..Len(chunkAssignments) :
    (i # j /\ chunkAssignments[i].taskId = chunkAssignments[j].taskId)
      => /\ chunkAssignments[i].chunkIndex # chunkAssignments[j].chunkIndex
         /\ ~RangesMeet(Span(chunkAssignments[i]), Span(chunkAssignments[j]))

\* two workers hold leases of one task at once, the second granted after the
\* first bucket was reported
C2_TwoLeasesHeld ==
  \E i, j \in 1..Len(chunkAssignments) :
    /\ chunkAssignments[i].taskId = chunkAssignments[j].taskId
    /\ chunkAssignments[i].workerId # chunkAssignments[j].workerId
    /\ chunkAssignments[i].chunkIndex < chunkAssignments[j].chunkIndex
    /\ chunkAssignments[i].assignedAt < chunkAssignments[j].assignedAt

\* C3: every result with payoutIssued has exactly three transactions naming
\* its bucket, one chunk-debit, one chunk-credit and one platform-fee, whose
\* amounts sum to zero.
C3_PayoutThreeTransactions ==
  \A i \in 1..Len(chunkResults) :
    chunkResults[i].payoutIssued =>
      LET txs == TxOfBucket(chunkResults[i].taskId, chunkResults[i].chunkIndex)
      IN /\ Len(txs) = 3
         /\ Len(TxOfType(txs, "chunk-debit")) = 1
         /\ Len(TxOfType(txs, "chunk-credit")) = 1
         /\ Len(TxOfType(txs, "platform-fee")) = 1
         /\ SumAmounts(txs) = 0

\* C4: payout is idempotent per bucket: at most one chunk-debit is ever
\* recorded for a (task, bucket index), however often record-chunk is repeated.
C4_OneDebitPerBucket ==
  \A t \in TaskIds, c \in 0..MaxChunkIndex :
    Len(TxOfType(TxOfBucket(t, c), "chunk-debit")) <= 1

\* C5: the wallet balance of a customer is never negative.
C5_CustomerBalanceNonNegative ==
  \A c \in Customers \cap DOMAIN users : users[c].walletBalance >= 0

\* the ledger of every user adds up: the balance is the sum of the user's
\* transactions and every row carries the running balance
LedgerAddsUp ==
  \A u \in DOMAIN users :
    LET txs == TxOfUser(walletTransactions, u)
    IN /\ users[u].walletBalance = SumAmounts(txs)
       /\ \A k \in 1..Len(txs) : txs[k].balanceAfter = SumAmounts(SubSeq(txs, 1, k))

\* a step only appends to the log, and a changed balance comes with exactly
\* one new row of that user carrying the new balance
LedgerStep ==
  /\ Len(walletTransactions') >= Len(walletTransactions)
  /\ SubSeq(walletTransactions', 1, Len(walletTransactions)) = walletTransactions
  /\ \A u \in DOMAIN users :
       (u \in DOMAIN users' /\ users'[u].walletBalance # users[u].walletBalance)
         => LET before == TxOfUser(walletTransactions, u)
                after == TxOfUser(walletTransactions', u)
            IN /\ Len(after) = Len(before) + 1
               /\ after[Len(after)].balanceAfter = users'[u].walletBalance

\* C6 (as amended): walletBalance equals the sum of the amounts of all the
\* transactions recorded for the user, the seed-credit row included; every
\* balance change appends exactly one row whose balanceAfter is the new
\* balance, and no row is ever removed.
C6_BalanceIsSumOfTransactions == [](LedgerAddsUp) /\ [][LedgerStep]_vars

\* a customer with a manual wallet operation and a bucket debit on record,
\* and a worker credited for the bucket
C6_LedgerExercised ==
  \E c \in Customers \cap DOMAIN users, w \in Workers \cap DOMAIN users :
    /\ TxOfType(TxOfUser(walletTransactions, c), "chunk-debit") # <<>>
    /\ \/ TxOfType(TxOfUser(walletTransactions, c), "wallet-withdrawal") # <<>>
       \/ TxOfType(TxOfUser(walletTransactions, c), "wallet-deposit") # <<>>
    /\ TxOfType(TxOfUser(walletTransactions, w), "chunk-credit") # <<>>

\* C6 as stated: walletBalance equals the seed balance plus the sum of the
\* amounts of the transactions recorded for the user.
C6_BalanceIsSeedPlusSum ==
  \A u \in DOMAIN users :
    users[u].walletBalance = users[u].seed + SumAmounts(TxOfUser(walletTransactions, u))

C8_RevokedUntilReclaimed ==
  \A t \in DOMAIN tasks, w \in Workers :
    /\ tasks[t].revoked => ~NextChunkOutcome(t, w).resp.ok
    /\ w \in mustReclaim[t] =>
         /\ ~NextChunkOutcome(t, w).resp.ok
         /\ ~tasks[t].revoked => NextChunkOutcome(t, w).resp.message = "not-assigned"

\* a reinvoked task: one worker has claimed again and is served, another has
\* not and is refused
C8_ReinvokedAndReclaimed ==
  \E t \in DOMAIN tasks, w1 \in Workers, w2 \in Workers :
    /\ ~tasks[t].revoked
    /\ w1 \in mustReclaim[t]
    /\ NextChunkOutcome(t, w1).resp.message = "not-assigned"
    /\ w2 \notin mustReclaim[t]
    /\ mustReclaim[t] # {}
    /\ NextChunkOutcome(t, w2).resp.ok

\* C9: while the lease a worker was last granted is live, a further
\* next-chunk of that worker answers with the same bucket index and range as
\* a resume, leaves nextChunkIndex alone and creates no second lease.
C9_ResumeIdempotent ==
  \A t \in DOMAIN tasks, w \in Workers :
    (/\ held[w][t].chunkIndex # NULL
     /\ LiveLeaseOf(t, held[w][t].chunkIndex, w)
     /\ ~tasks[t].revoked
     /\ Includes(tasks[t].assignedWorkers, w))
      => /\ NextChunkOutcome(t, w).resp.ok
         /\ NextChunkOutcome(t, w).resp.resume
         /\ NextChunkOutcome(t, w).resp.chunkIndex = held[w][t].chunkIndex
         /\ NextChunkOutcome(t, w).resp.rangeStart = held[w][t].rangeStart
         /\ NextChunkOutcome(t, w).resp.rangeEnd = held[w][t].rangeEnd
         /\ NextChunkOutcome(t, w).task.nextChunkIndex = tasks[t].nextChunkIndex
         /\ Len(NextChunkOutcome(t, w).assignments) <= Len(chunkAssignments)

\* a worker's live lease was renewed by a repeated next-chunk (no progress was
\* reported for the bucket) while another worker holds a lease too
C9_LeaseResumed ==
  \E t \in DOMAIN tasks, w \in Workers, i \in 1..Len(chunkAssignments) :
    /\ chunkAssignments[i].taskId = t
    /\ chunkAssignments[i].workerId = w
    /\ chunkAssignments[i].chunkIndex = held[w][t].chunkIndex
    /\ chunkAssignments[i].expiresAt > chunkAssignments[i].assignedAt + BUCKET_TIMEOUT_MS
    /\ now <= chunkAssignments[i].expiresAt
    /\ \A k \in 1..Len(chunkResults) : chunkResults[k].chunkIndex # chunkAssignments[i].chunkIndex
    /\ Len(chunkAssignments) > 1

\* C10: a successful next-chunk never answers a worker with a bucket index
\* below the one it was last given; the same index comes only as the resume
\* of that lease, anything else is strictly larger.
C10_IndexNeverDecreases ==
  \A t \in DOMAIN tasks, w \in Workers :
    (held[w][t].chunkIndex # NULL /\ NextChunkOutcome(t, w).resp.ok)
      => \/ NextChunkOutcome(t, w).resp.chunkIndex > held[w][t].chunkIndex
         \/ /\ NextChunkOutcome(t, w).resp.chunkIndex = held[w][t].chunkIndex
            /\ NextChunkOutcome(t, w).resp.resume
            /\ LiveLeaseOf(t, held[w][t].chunkIndex, w)

\* a worker holds a live lease on a bucket with a larger index than a bucket
\* it reported a result for earlier
C10_LargerIndexGranted ==
  \E t \in DOMAIN tasks, w \in Workers, i \in 1..Len(chunkResults) :
    /\ chunkResults[i].taskId = t
    /\ chunkResults[i].workerId = w
    /\ held[w][t].chunkIndex # NULL
    /\ chunkResults[i].chunkIndex < held[w][t].chunkIndex
    /\ LiveLeaseOf(t, held[w][t].chunkIndex, w)
    /\ now > 0

\* C11: when the only lease of a task is worker W1's lease on bucket 0, it has
\* run out and nothing was reported, next-chunk of another assigned worker W2
\* removes that lease and grants W2 a new lease with bucket index 1 over the
\* range W1 held.
C11_ExpiredLeaseReallocated ==
  \A t \in DOMAIN tasks, w1 \in Workers, w2 \in Workers :
    \A i \in 1..Len(chunkAssignments) :
      (/\ w1 # w2
       /\ chunkAssignments[i].taskId = t
       /\ chunkAssignments[i].workerId = w1
       /\ chunkAssignments[i].chunkIndex = 0
       /\ now > chunkAssignments[i].expiresAt
       /\ Len(TaskAssignments(chunkAssignments, t)) = 1
       /\ tasks[t].nextChunkIndex = 1
       /\ TaskResults(chunkResults, t) = <<>>
       /\ ~tasks[t].revoked
       /\ Includes(tasks[t].assignedWorkers, w2))
        => /\ NextChunkOutcome(t, w2).resp.ok
           /\ ~NextChunkOutcome(t, w2).resp.resume
           /\ NextChunkOutcome(t, w2).resp.chunkIndex = 1
           /\ NextChunkOutcome(t, w2).resp.rangeStart = chunkAssignments[i].rangeStart
           /\ NextChunkOutcome(t, w2).resp.rangeEnd = chunkAssignments[i].rangeEnd
           /\ NextChunkOutcome(t, w2).task.nextChunkIndex = 2
           /\ TaskAssignments(NextChunkOutcome(t, w2).assignments, t)
                = <<NewLease(t, 1, w2, [rangeStart |-> chunkAssignments[i].rangeStart,
                                        rangeEnd |-> chunkAssignments[i].rangeEnd,
                                        bytesUsed |-> chunkAssignments[i].bytesUsed])>>

\* W1 was granted bucket 0 and reported nothing; after the lease period W2
\* holds the only lease, bucket 1 over W1's range
C11_TakenOverAfterExpiry ==
  \E t \in DOMAIN tasks, w1 \in Workers, w2 \in Workers :
    /\ w1 # w2
    /\ held[w1][t].chunkIndex = 0
    /\ held[w1][t].sent = "none"
    /\ Includes(tasks[t].assignedWorkers, w1)
    /\ TaskResults(chunkResults, t) = <<>>
    /\ Len(TaskAssignments(chunkAssignments, t)) = 1
    /\ \E i \in 1..Len(chunkAssignments) :
         /\ chunkAssignments[i].taskId = t
         /\ chunkAssignments[i].workerId = w2
         /\ chunkAssignments[i].chunkIndex = 1
         /\ chunkAssignments[i].assignedAt > BUCKET_TIMEOUT_MS
         /\ chunkAssignments[i].rangeStart = held[w1][t].rangeStart
         /\ chunkAssignments[i].rangeEnd = held[w1][t].rangeEnd

\* item index i of task t lies in the range of a result with a terminal status
ItemDone(t, i) ==
  \E k \in 1..Len(chunkResults) :
    /\ chunkResults[k].taskId = t
    /\ chunkResults[k].status \in FinishedStatuses
    /\ IsFinite(chunkResults[k].rangeStart) /\ IsFinite(chunkResults[k].rangeEnd)
    /\ chunkResults[k].rangeStart <= i /\ i < chunkResults[k].rangeEnd

\* C12: for a task that is neither revoked nor deleted and whose budget does
\* not block allocation, once a worker that keeps calling next-chunk and
\* posts a terminal result for every bucket it is granted is assigned,
\* eventually every item index is covered by a terminal bucket result and
\* the task is completed, whatever the other worker did before it stopped.
C12_ForwardProgress ==
  \A t \in TaskIds :
    (t \in DOMAIN tasks /\ Includes(tasks[t].assignedWorkers, GoodWorker))
      ~> (/\ t \in DOMAIN tasks
          /\ tasks[t].status = "completed"
          /\ \A i \in 0..(Len(tasks[t].items) - 1) : ItemDone(t, i))

\* C13: the processedItems stored for a (task, bucket index) never decreases
\* from one step to the next, whatever progress batches (late, repeated, out
\* of order) and result posts arrive for the bucket.
C13_ProcessedNeverDecreases ==
  [][\A t \in TaskIds, c \in 0..MaxChunkIndex :
       (FindBucket(chunkResults, t, c) # 0 /\ FindBucket(chunkResults', t, c) # 0)
         => chunkResults'[FindBucket(chunkResults', t, c)].processedItems
              >= chunkResults[FindBucket(chunkResults, t, c)].processedItems]_vars

\* a progress batch arrived out of order: the lease carries the count of the
\* latest batch, the result of the bucket keeps the larger count of an
\* earlier one
C13_LateBatchKeptLarger ==
  \E m \in 1..Len(chunkAssignments), k \in 1..Len(chunkResults) :
    /\ chunkAssignments[m].taskId = chunkResults[k].taskId
    /\ chunkAssignments[m].chunkIndex = chunkResults[k].chunkIndex
    /\ chunkResults[k].status = "processing"
    /\ chunkAssignments[m].processedCount > 0
    /\ chunkAssignments[m].processedCount < chunkResults[k].processedItems

\* item index i of task t lies in the range of a stored result or of a lease
\* that has not run out
ItemTaken(t, i) ==
  \/ indexCovered(i, collectRanges(TaskResults(chunkResults, t)))
  \/ indexCovered(i, collectRanges(SelectSeq(chunkAssignments,
                        LAMBDA e : e.taskId = t /\ now <= e.expiresAt)))

\* C14 (as amended): a new bucket handed out by next-chunk covers only item
\* indices that lie in no stored result and in no lease that has not run
\* out, and next-chunk answers no-chunk only when every item index of the
\* task lies in a stored result or such a lease.  (Items of a lease that was
\* dropped, revoked or ran out without a result are handed out again under a
\* new bucket index.)
C14_NewBucketOverFreeItems ==
  \A t \in DOMAIN tasks, w \in Workers :
    \A o \in {NextChunkOutcome(t, w)} :
      /\ (o.resp.ok /\ ~o.resp.resume)
           => \A i \in o.resp.rangeStart..(o.resp.rangeEnd - 1) : ~ItemTaken(t, i)
      /\ (~o.resp.ok /\ o.resp.message = "no-chunk")
           => \A i \in 0..(Len(tasks[t].items) - 1) : ItemTaken(t, i)

\* the first items are covered by a terminal result, a worker holds a live
\* lease on the bucket that follows them, and another assigned worker is
\* answered no-chunk
C14_RestLeasedNothingLeft ==
  \E t \in DOMAIN tasks, w1 \in Workers, w2 \in Workers :
    /\ w1 # w2
    /\ NextChunkOutcome(t, w2).resp.message = "no-chunk"
    /\ \E m \in 1..Len(chunkAssignments), k \in 1..Len(chunkResults) :
         /\ chunkAssignments[m].taskId = t /\ chunkResults[k].taskId = t
         /\ chunkAssignments[m].workerId = w1
         /\ now <= chunkAssignments[m].expiresAt
         /\ chunkResults[k].status \in FinishedStatuses
         /\ chunkResults[k].chunkIndex < chunkAssignments[m].chunkIndex
         /\ chunkResults[k].rangeEnd = chunkAssignments[m].rangeStart

\* C14 as stated: no item index is handed out in two different buckets: the
\* buckets last granted to two workers, when their indices differ, have
\* disjoint ranges.
C14_ItemInOneBucket ==
  \A t \in TaskIds, w1 \in Workers, w2 \in Workers :
    (/\ held[w1][t].chunkIndex # NULL /\ held[w2][t].chunkIndex # NULL
     /\ held[w1][t].chunkIndex # held[w2][t].chunkIndex)
      => ~RangesMeet([start |-> held[w1][t].rangeStart, end |-> held[w1][t].rangeEnd],
                     [start |-> held[w2][t].rangeStart, end |-> held[w2][t].rangeEnd])

RECURSIVE SumSizes(_, _, _)
\* the serialised size of items[from, to), items counted from 0
SumSizes(items, from, to) ==
  IF from >= to THEN 0 ELSE items[from + 1] + SumSizes(items, from + 1, to)

\* C15: every new bucket returned by the planner is a non-empty range inside
\* [0, totalItems) that starts at the smallest item index covered by no
\* result and no lease, and the sizes of its items add up to at most
\* bucketConfig.maxBucketBytes as the call leaves it.
C15_BucketWellFormed ==
  \A t \in DOMAIN tasks, w \in Workers :
    \A o \in {NextChunkOutcome(t, w)} :
      (o.resp.ok /\ ~o.resp.resume)
        => /\ 0 <= o.resp.rangeStart
           /\ o.resp.rangeStart < o.resp.rangeEnd
           /\ o.resp.rangeEnd <= Len(tasks[t].items)
           /\ o.task.totalItems = Len(tasks[t].items)
           /\ ~ItemTaken(t, o.resp.rangeStart)
           /\ \A j \in 0..(o.resp.rangeStart - 1) : ItemTaken(t, j)
           /\ SumSizes(tasks[t].items, o.resp.rangeStart, o.resp.rangeEnd)
                <= o.task.bucketConfig.maxBucketBytes

\* a lease that starts after covered items and fills its bucket to the byte
\* limit, in a task whose bucket count was halved to make an item fit
C15_FilledBucketAfterHalving ==
  \E t \in DOMAIN tasks, m \in 1..Len(chunkAssignments) :
    /\ chunkAssignments[m].taskId = t
    /\ chunkAssignments[m].rangeStart > 0
    /\ chunkAssignments[m].bytesUsed = tasks[t].bucketConfig.maxBucketBytes
    /\ tasks[t].bucketConfig.maxBuckets < tasks[t].maxBillableChunks

\* the leases of task t that have not run out
ActiveLeases(t) ==
  SelectSeq(chunkAssignments, LAMBDA e : e.taskId = t /\ now <= e.expiresAt)

\* C16: with budget checks enabled, while chunksPaid plus the number of
\* active leases of a task has reached maxBillableChunks, a next-chunk call
\* of an assigned worker that is not the resume of its lease is refused with
\* budget-exhausted, and no call leaves a lease in the store that was not
\* there before.
C16_BudgetExhausted ==
  \A t \in DOMAIN tasks, w \in Workers :
    \A o \in {NextChunkOutcome(t, w)} :
      (/\ ~DISABLE_BUDGET_CHECKS
       /\ tasks[t].chunksPaid + Len(ActiveLeases(t)) >= tasks[t].maxBillableChunks)
        => /\ (o.resp.ok => o.resp.resume)
           /\ \A i \in 1..Len(o.assignments) :
                 o.assignments[i].taskId = t
                   => FindBucket(chunkAssignments, t, o.assignments[i].chunkIndex) # 0
           /\ (~tasks[t].revoked /\ Includes(tasks[t].assignedWorkers, w) /\ ~o.resp.resume)
                => o.resp.message = "budget-exhausted"

\* two buckets of a task with maxBillableChunks = 2 are paid, an item lies in
\* no result and no lease, and an assigned worker is refused
C16_RefusedWithItemsLeft ==
  \E t \in DOMAIN tasks, w \in Workers :
    /\ ~DISABLE_BUDGET_CHECKS
    /\ tasks[t].maxBillableChunks = 2
    /\ tasks[t].chunksPaid = 2
    /\ Len(TxOfType(walletTransactions, "chunk-debit")) = 2
    /\ \E i \in 0..(Len(tasks[t].items) - 1) : ~ItemTaken(t, i)
    /\ Includes(tasks[t].assignedWorkers, w)
    /\ NextChunkOutcome(t, w).resp.message = "budget-exhausted"
C18_CompletedSticky ==
  [][\A t \in DOMAIN tasks :
       (tasks[t].status = "completed" /\ t \in DOMAIN tasks')
         => tasks'[t].status = "completed"]_vars

\* worker w sent a heartbeat no longer ago than the window
HeartbeatFresh(w) ==
  /\ workerHeartbeats[w] # NULL
  /\ now - workerHeartbeats[w] <= WORKER_TIMEOUT_MS

\* C19: next-chunk answers a worker with a bucket, new or resumed, only if
\* the worker has a heartbeat no older than WORKER_TIMEOUT.
C19_GrantNeedsHeartbeat ==
  \A t \in DOMAIN tasks, w \in Workers :
    \A o \in {NextChunkOutcome(t, w)} : o.resp.ok => HeartbeatFresh(w)

\* the positions of the unexpired leases of task t owned by worker w
LeasesOf(t, w) ==
  {i \in 1..Len(chunkAssignments) :
     /\ chunkAssignments[i].taskId = t
     /\ chunkAssignments[i].workerId = w
     /\ now <= chunkAssignments[i].expiresAt}

\* C20: in every reachable state a (taskId, workerId) pair owns at most one
\* lease that has not run out.
C20_OneLeasePerWorker ==
  \A t \in TaskIds, w \in Workers : Cardinality(LeasesOf(t, w)) <= 1

\* amount <= balance, for a request amount and a balance in micro-credits
AtMostBalance(a, balance) ==
  \/ a.credits < balance \div MICRO
  \/ a.credits = balance \div MICRO /\ a.micros <= balance % MICRO

\* a wallet request that is rejected leaves the users and the log as they are
RejectedChangesNothing(o) ==
  ~o.ok => /\ o.db.users = users
           /\ o.db.walletTransactions = walletTransactions
           /\ o.db.platformLedger = platformLedger

\* C21 (as stated): a withdrawal is accepted only with the sandbox enabled and
\* 0 < amount <= balance for the amount of the request; a rejected deposit or
\* withdrawal changes no balance and no transaction row; an accepted
\* withdrawal leaves a balance >= 0.
C21_WithdrawalWithinBalance ==
  \A s \in DOMAIN users \cap Sessions, a \in WalletAmountChoices :
    /\ \A o \in {WithdrawOutcome(s, a)} :
          /\ o.ok => /\ SANDBOX_WALLET_ENABLED
                      /\ ~NotPositive(a)
                      /\ AtMostBalance(a, users[s].walletBalance)
                      /\ o.db.users[s].walletBalance >= 0
          /\ RejectedChangesNothing(o)
    /\ \A o \in {DepositOutcome(s, a)} : RejectedChangesNothing(o)

\* C21 (amended): the same with the amount rounded to two decimals, which is
\* the amount the handler compares with the balance and withdraws.
C21_RoundedWithinBalance ==
  \A s \in DOMAIN users \cap Sessions, a \in WalletAmountChoices :
    /\ \A o \in {WithdrawOutcome(s, a)} :
          /\ o.ok => /\ SANDBOX_WALLET_ENABLED
                      /\ ~NotPositive(normalizeCurrencyAmount(a))
                      /\ AtMostBalance(normalizeCurrencyAmount(a), users[s].walletBalance)
                      /\ o.db.users[s].walletBalance >= 0
                      /\ o.db.users[s].walletBalance
                           = users[s].walletBalance - InMicros(normalizeCurrencyAmount(a))
          /\ RejectedChangesNothing(o)
    /\ \A o \in {DepositOutcome(s, a)} : RejectedChangesNothing(o)

\* a withdrawal was made, and in the state it left one amount is accepted
\* while a larger one, an amount over the limit and an amount of zero are not
C21_WithdrawnAndRefused ==
  \E s \in DOMAIN users \cap Sessions :
    /\ SANDBOX_WALLET_ENABLED
    /\ TxOfType(walletTransactions, "wallet-withdrawal") # <<>>
    /\ users[s].walletBalance = MICRO
    /\ WithdrawOutcome(s, Amount(1, 0)).ok
    /\ ~WithdrawOutcome(s, Amount(2, 0)).ok
    /\ ~WithdrawOutcome(s, Amount(DepositLimit + 1, 0)).ok
    /\ ~WithdrawOutcome(s, Amount(0, 4000)).ok
    /\ ~DepositOutcome(s, Amount(DepositLimit + 1, 0)).ok
\* results and leases of the tasks other than t, and those tasks themselves
OtherResults(results, t) == SelectSeq(results, LAMBDA r : r.taskId # t)
OtherAssignments(assignments, t) == SelectSeq(assignments, LAMBDA a : a.taskId # t)

\* each result and lease belongs to a task in the store, and next-chunk for a
\* task that was deleted is answered not-found
NothingOfDeletedTasks ==
  /\ \A i \in 1..Len(chunkResults) : chunkResults[i].taskId \in DOMAIN tasks
  /\ \A i \in 1..Len(chunkAssignments) : chunkAssignments[i].taskId \in DOMAIN tasks
  /\ \A t \in TaskIds, w \in Workers :
        (t < nextTaskId /\ t \notin DOMAIN tasks)
          => NextChunkAnswer(t, w).message = "Task not found"

\* C22: a step that deletes task t leaves no result and no lease of t, and
\* leaves the other tasks, their results and leases, all users, the
\* transaction log and the platform ledger as they were; in every state
\* reached, each result and lease belongs to a task in the store and
\* next-chunk for a deleted task is answered not-found, and a deleted task
\* stays deleted.
C22_DeleteCascades ==
  /\ []NothingOfDeletedTasks
  /\ [][\A t \in TaskIds :
          /\ (t \in DOMAIN tasks /\ t \notin DOMAIN tasks')
               => /\ TaskResults(chunkResults', t) = <<>>
                  /\ TaskAssignments(chunkAssignments', t) = <<>>
                  /\ OtherResults(chunkResults', t) = OtherResults(chunkResults, t)
                  /\ OtherAssignments(chunkAssignments', t) = OtherAssignments(chunkAssignments, t)
                  /\ \A x \in DOMAIN tasks \ {t} : x \in DOMAIN tasks' /\ tasks'[x] = tasks[x]
                  /\ users' = users
                  /\ walletTransactions' = walletTransactions
                  /\ platformLedger' = platformLedger
          /\ (t < nextTaskId /\ t \notin DOMAIN tasks) => t \notin DOMAIN tasks'
       ]_vars

\* task 1 was deleted after a bucket of it was paid, its worker still holds a
\* grant for it, and task 2 has a lease and a result
C22_DeletedBesideLiveTask ==
  /\ DOMAIN tasks = {2}
  /\ nextTaskId = 3
  /\ TxOfBucket(1, 0) # <<>>
  /\ held[LedgerWorker][1].chunkIndex # NULL
  /\ TaskAssignments(chunkAssignments, 2) # <<>>
  /\ TaskResults(chunkResults, 2) # <<>>
\* C23: a step that revokes task t sets revoked, empties assignedWorkers and
\* leaves no lease of t, and changes nothing else: every result of the task
\* (paid ones included), chunksPaid, budgetSpent, status and progress, the
\* leases of other tasks, all users, the transaction log and the ledger.
C23_RevokeFrame ==
  [][\A t \in DOMAIN tasks :
       (~tasks[t].revoked /\ t \in DOMAIN tasks' /\ tasks'[t].revoked)
         => /\ tasks'[t] = [tasks[t] EXCEPT !.revoked = TRUE, !.assignedWorkers = <<>>]
            /\ tasks'[t].chunksPaid = tasks[t].chunksPaid
            /\ tasks'[t].budgetSpent = tasks[t].budgetSpent
            /\ TaskAssignments(chunkAssignments', t) = <<>>
            /\ OtherAssignments(chunkAssignments', t) = OtherAssignments(chunkAssignments, t)
            /\ chunkResults' = chunkResults
            /\ users' = users
            /\ walletTransactions' = walletTransactions
            /\ platformLedger' = platformLedger
    ]_vars

\* a revoked task with a paid result, whose worker holds a bucket that has
\* neither a lease nor a result any more
C23_RevokedWithPaidResult ==
  \E t \in DOMAIN tasks, w \in Workers :
    /\ tasks[t].revoked
    /\ tasks[t].assignedWorkers = <<>>
    /\ tasks[t].chunksPaid >= 1
    /\ \E i \in 1..Len(chunkResults) :
          /\ chunkResults[i].taskId = t
          /\ chunkResults[i].status = "completed"
          /\ chunkResults[i].payoutIssued
    /\ held[w][t].chunkIndex # NULL
    /\ held[w][t].sent = "none"
    /\ FindBucket(chunkAssignments, t, held[w][t].chunkIndex) = 0
    /\ FindBucket(chunkResults, t, held[w][t].chunkIndex) = 0
\* worker w is taken off task t by a drop: the task is not revoked by the step
DropsWorker(t, w) ==
  /\ t \in DOMAIN tasks'
  /\ Includes(tasks[t].assignedWorkers, w)
  /\ ~Includes(tasks'[t].assignedWorkers, w)
  /\ tasks'[t].revoked = tasks[t].revoked

\* a bucket granted to some worker that has neither a lease nor a result any
\* more, with an item that lies in no result and no unexpired lease
FreedItem(t, i) ==
  /\ ~ItemTaken(t, i)
  /\ \E w \in Workers :
        /\ held[w][t].chunkIndex # NULL
        /\ held[w][t].rangeStart <= i /\ i < held[w][t].rangeEnd
        /\ FindBucket(chunkAssignments, t, held[w][t].chunkIndex) = 0

\* next-chunk of a worker that is not assigned is refused and writes nothing
\* (not-assigned, or revoked if the task is revoked); an assigned worker with
\* no lease of its own is granted a new bucket that starts at the first free
\* item, whenever an item of a bucket that lost its lease is free
AfterDrop ==
  \A t \in DOMAIN tasks, w \in Workers :
    /\ ~Includes(tasks[t].assignedWorkers, w)
         => \A o \in {NextChunkOutcome(t, w)} :
              /\ ~o.resp.ok
              /\ o.resp.message = IF tasks[t].revoked THEN "revoked" ELSE "not-assigned"
              /\ o.task = tasks[t] /\ o.assignments = chunkAssignments
    /\ (/\ ~tasks[t].revoked /\ Includes(tasks[t].assignedWorkers, w)
        /\ DISABLE_BUDGET_CHECKS
        /\ \A k \in 1..Len(chunkAssignments) :
              ~(chunkAssignments[k].taskId = t /\ chunkAssignments[k].workerId = w)
        /\ \E i \in 0..(Len(tasks[t].items) - 1) : FreedItem(t, i))
         => \A o \in {NextChunkOutcome(t, w)} :
              /\ o.resp.ok /\ ~o.resp.resume
              /\ ~ItemTaken(t, o.resp.rangeStart)
              /\ \A i \in 0..(o.resp.rangeStart - 1) : ItemTaken(t, i)

Occurrences(seq, x) == Len(SelectSeq(seq, LAMBDA y : y = x))

\* C25: a claim on a revoked task is refused and leaves the task and the
\* users as they are; a claim on a task that is not revoked is accepted,
\* leaves workerId in assignedWorkers exactly once with the workers already
\* there kept in order, turns status queued into processing and leaves any
\* other status, and changes nothing else of the task.
C25_ClaimEffect ==
  \A t \in DOMAIN tasks, w \in Workers :
    \A o \in {ClaimOutcome(t, w)} :
      /\ tasks[t].revoked => (~o.ok /\ o.task = tasks[t] /\ o.users = users)
      /\ ~tasks[t].revoked
           => /\ o.ok
              /\ Occurrences(o.task.assignedWorkers, w) = 1
              /\ SelectSeq(o.task.assignedWorkers, LAMBDA x : x # w)
                   = SelectSeq(tasks[t].assignedWorkers, LAMBDA x : x # w)
              /\ Includes(tasks[t].assignedWorkers, w)
                   => o.task.assignedWorkers = tasks[t].assignedWorkers
              /\ o.task.status = IF tasks[t].status = "queued" THEN "processing"
                                 ELSE tasks[t].status
              /\ o.task = [tasks[t] EXCEPT !.assignedWorkers = o.task.assignedWorkers,
                                           !.status = o.task.status]

\* a completed task that is not revoked, with a worker that claimed it and a
\* worker that was dropped from it: a repeated claim, a claim that adds a
\* worker, and a status other than queued
C25_ClaimOnCompleted ==
  \E t \in DOMAIN tasks :
    /\ ~tasks[t].revoked
    /\ tasks[t].status = "completed"
    /\ \E w \in Workers : Includes(tasks[t].assignedWorkers, w)
    /\ \E w \in Workers :
          ~Includes(tasks[t].assignedWorkers, w) /\ held[w][t].chunkIndex # NULL
\* every bucket index up to last has a stored result with status completed
\* and the task has no lease
AllCompleted(t, last) ==
  /\ \A c \in 0..last :
        /\ FindBucket(chunkResults, t, c) # 0
        /\ chunkResults[FindBucket(chunkResults, t, c)].status = "completed"
  /\ TaskAssignments(chunkAssignments, t) = <<>>

SumBalances(S) ==
  LET RECURSIVE Sum(_)
      Sum(U) == IF U = {} THEN 0
                ELSE LET u == CHOOSE u \in U : TRUE
                     IN users[u].walletBalance + Sum(U \ {u})
  IN Sum(S)

\* C26: for the task of ten items, cost 2, five billable buckets, fee 10 and
\* a customer seeded with 20, once the five buckets leased by the two workers
\* are all completed the customer has 10, the workers together 9, the
\* platform ledger 1, chunksPaid is 5, progress 100 and status completed.
C26_HappyPathSettlement ==
  \A t \in DOMAIN tasks :
    AllCompleted(t, SettlementBuckets - 1)
      => /\ users[tasks[t].creatorId].walletBalance = 10 * MICRO
         /\ SumBalances(DOMAIN users \cap Workers) = 9 * MICRO
         /\ platformLedger.totalEarnings = MICRO
         /\ tasks[t].chunksPaid = 5
         /\ tasks[t].progress = 100
         /\ tasks[t].status = "completed"

\* the five buckets are completed and each of the two workers was paid
C26_FiveBucketsByTwoWorkers ==
  \E t \in DOMAIN tasks :
    /\ AllCompleted(t, SettlementBuckets - 1)
    /\ Len(chunkResults) = 5
    /\ \A w \in Workers : w \in DOMAIN users /\ users[w].walletBalance > 0
    /\ \A c \in 0..4 : chunkResults[FindBucket(chunkResults, t, c)].rangeEnd
                          - chunkResults[FindBucket(chunkResults, t, c)].rangeStart = 2
\* task t was created with one item of the given size, maxBuckets 8 and
\* maxBucketBytes 1 MiB, and has handed out no bucket yet
OversizeTask(t, size) ==
  /\ tasks[t].items = <<size>>
  /\ tasks[t].nextChunkIndex = 0
  /\ tasks[t].bucketConfig = [maxBuckets |-> 8, maxBucketBytes |-> MiB]

\* next-chunk of an assigned worker returns bucket 0 over [0,1) and leaves
\* the given bucket config on the task
FirstBucketWith(t, w, maxBuckets, maxBucketBytes) ==
  \A o \in {NextChunkOutcome(t, w)} :
    /\ o.resp.ok /\ ~o.resp.resume
    /\ o.resp.chunkIndex = 0 /\ o.resp.rangeStart = 0 /\ o.resp.rangeEnd = 1
    /\ o.task.bucketConfig = [maxBuckets |-> maxBuckets, maxBucketBytes |-> maxBucketBytes]
    /\ o.task.totalChunks = maxBuckets
    /\ o.task.maxBucketBytes = maxBucketBytes

\* C27 (as stated): for a single item of size 4 MiB with maxBucketBytes 1 MiB
\* and maxBuckets 8, the first next-chunk leaves maxBuckets 1 and
\* maxBucketBytes 8 MiB and returns bucket 0 over [0,1).
C27_OversizeToOneBucket ==
  \A t \in DOMAIN tasks, w \in Workers :
    (OversizeTask(t, 4 * MiB) /\ Includes(tasks[t].assignedWorkers, w))
      => FirstBucketWith(t, w, 1, 8 * MiB)

\* C27 (amended): for that task the first next-chunk leaves maxBuckets 2 and
\* maxBucketBytes 4 MiB, since the halving stops once the item fits; for an
\* item longer than 4 MiB and at most 8 MiB it leaves maxBuckets 1 and
\* maxBucketBytes 8 MiB.  In both cases it returns bucket 0 over [0,1).
C27_OversizeHalvedUntilFit ==
  \A t \in DOMAIN tasks, w \in Workers :
    Includes(tasks[t].assignedWorkers, w)
      => /\ OversizeTask(t, 4 * MiB) => FirstBucketWith(t, w, 2, 4 * MiB)
         /\ \A size \in {4 * MiB + 2, 8 * MiB} :
               OversizeTask(t, size) => FirstBucketWith(t, w, 1, 8 * MiB)

\* the task with the 4 MiB item after its first next-chunk: bucket 0 over
\* [0,1) is leased and the config stands at two buckets of 4 MiB
C27_FourMiBLeased ==
  \E t \in DOMAIN tasks :
    /\ tasks[t].items = <<4 * MiB>>
    /\ tasks[t].nextChunkIndex = 1
    /\ tasks[t].bucketConfig = [maxBuckets |-> 2, maxBucketBytes |-> 4 * MiB]
    /\ \E k \in 1..Len(chunkAssignments) :
          /\ chunkAssignments[k].taskId = t
          /\ chunkAssignments[k].chunkIndex = 0
          /\ chunkAssignments[k].rangeStart = 0
          /\ chunkAssignments[k].rangeEnd = 1

\* the leases of task t that have not run out and that a record-chunk for
\* (t, chunkIndex) with range [rangeStart, rangeEnd) should have released
Unreleased(assignments, t, chunkIndex, rangeStart, rangeEnd) ==
  {i \in 1..Len(assignments) :
     /\ assignments[i].taskId = t
     /\ now <= assignments[i].expiresAt
     /\ \/ assignments[i].chunkIndex = chunkIndex
        \/ RangesMeet(Span(assignments[i]), [start |-> rangeStart, end |-> rangeEnd])}

\* C28: a record-chunk for (taskId, bucketIndex) with range R deletes the
\* lease of that bucket and every other lease of the task whose range
\* overlaps R: after the call no active lease of the task has that bucket
\* index or meets R.
C28_ReleaseOnResult ==
  \A w \in Workers, t \in DOMAIN tasks, status \in TerminalStatuses :
    held[w][t].chunkIndex # NULL =>
      \A o \in {RecordChunkOutcome(t, held[w][t].chunkIndex, status, held[w][t].rangeStart,
                                  held[w][t].rangeEnd,
                                  held[w][t].rangeEnd - held[w][t].rangeStart, w)} :
        Unreleased(o.assignments, t, held[w][t].chunkIndex, held[w][t].rangeStart,
                   held[w][t].rangeEnd) = {}

\* the fields of a stored result that a payout freezes
Frozen(r) ==
  [status |-> r.status, rangeStart |-> r.rangeStart, rangeEnd |-> r.rangeEnd,
   itemsCount |-> r.itemsCount, processedItems |-> r.processedItems,
   workerId |-> r.workerId]

\* C29: once a bucket result has payoutIssued = true, no later call changes
\* its status, rangeStart, rangeEnd, itemsCount, processedItems or workerId,
\* or removes the result while the task exists.
C29_PaidResultImmutable ==
  [][\A i \in 1..Len(chunkResults) :
       (chunkResults[i].payoutIssued /\ chunkResults[i].taskId \in DOMAIN tasks')
         => \E j \in 1..Len(chunkResults') :
              /\ chunkResults'[j].taskId = chunkResults[i].taskId
              /\ chunkResults'[j].chunkIndex = chunkResults[i].chunkIndex
              /\ chunkResults'[j].payoutIssued
              /\ Frozen(chunkResults'[j]) = Frozen(chunkResults[i])]_vars

\* the positions in assignments of the leases of (t, w) that have not run
\* out and whose bucket has no terminal result
OpenLeases(assignments, t, w) ==
  {i \in 1..Len(assignments) :
     /\ assignments[i].taskId = t
     /\ assignments[i].workerId = w
     /\ now <= assignments[i].expiresAt
     /\ \A k \in 1..Len(chunkResults) :
          (chunkResults[k].taskId = t /\ chunkResults[k].chunkIndex = assignments[i].chunkIndex)
            => chunkResults[k].status \notin FinishedStatuses}

\* next-chunk reaches its resume lookup with several open leases of (t, w)
SeveralToResume(t, w) ==
  /\ ~tasks[t].revoked
  /\ Includes(tasks[t].assignedWorkers, w)
  /\ Cardinality(OpenLeases(chunkAssignments, t, w)) > 1

\* the answer resumes an open lease of (t, w) that none precedes in assignedAt
ResumesOldest(t, w, o) ==
  /\ o.resp.ok /\ o.resp.resume
  /\ \E i \in OpenLeases(chunkAssignments, t, w) :
        /\ chunkAssignments[i].chunkIndex = o.resp.chunkIndex
        /\ \A j \in OpenLeases(chunkAssignments, t, w) :
              chunkAssignments[i].assignedAt <= chunkAssignments[j].assignedAt

\* C30: when next-chunk finds more than one non-expired, non-terminal lease
\* of one (taskId, workerId), it returns the one with the earliest assignedAt
\* and deletes all the others: exactly one lease of the pair remains.
C30_OldestWinsRestDiscarded ==
  \A t \in DOMAIN tasks, w \in Workers :
    SeveralToResume(t, w) =>
      \A o \in {NextChunkOutcome(t, w)} :
        /\ ResumesOldest(t, w, o)
        /\ Cardinality({i \in 1..Len(o.assignments) :
                          o.assignments[i].taskId = t /\ o.assignments[i].workerId = w}) = 1

\* the lease of bucket c of task t is stored in assignments and has run out
RunOut(assignments, t, c) ==
  \E i \in 1..Len(assignments) :
    /\ assignments[i].taskId = t
    /\ assignments[i].chunkIndex = c
    /\ now > assignments[i].expiresAt

\* C31: once now has passed a lease's expiresAt, record-progress for that
\* bucket does not refresh or revive the lease: after the request the store
\* holds no lease of the bucket that has not run out.
C31_ExpiredLeaseStaysExpired ==
  \A w \in Workers, t \in DOMAIN tasks, n \in 1..MaxItems :
    (/\ held[w][t].chunkIndex # NULL
     /\ n <= held[w][t].rangeEnd - held[w][t].rangeStart
     /\ RunOut(chunkAssignments, t, held[w][t].chunkIndex))
      => \A o \in {RecordProgressOutcome(t, held[w][t].chunkIndex, w, held[w][t].rangeStart, n,
                                          held[w][t].rangeEnd - held[w][t].rangeStart)} :
           \A i \in 1..Len(o.assignments) :
             (o.assignments[i].taskId = t /\ o.assignments[i].chunkIndex = held[w][t].chunkIndex)
               => now > o.assignments[i].expiresAt

\* the config next-chunk leaves on the task holds the largest item and at
\* least one bucket, whenever the call gets as far as the normalisation
NormalisedFitsLargest ==
  \A t \in DOMAIN tasks, w \in Workers :
    (~tasks[t].revoked /\ Includes(tasks[t].assignedWorkers, w))
      => \A o \in {NextChunkOutcome(t, w)} :
           /\ o.task.bucketConfig.maxBucketBytes >= SeqMax(tasks[t].items)
           /\ o.task.bucketConfig.maxBuckets >= 1

\* C32: over the life of a task maxBuckets never increases and stays >= 1,
\* maxBucketBytes never decreases (a size not configured counting as none),
\* and after each normalisation maxBucketBytes >= the size of the largest item.
C32_ConfigMonotone ==
  /\ []NormalisedFitsLargest
  /\ [][\A t \in DOMAIN tasks \cap DOMAIN tasks' :
          /\ tasks'[t].bucketConfig.maxBuckets <= tasks[t].bucketConfig.maxBuckets
          /\ tasks'[t].bucketConfig.maxBuckets >= 1
          /\ tasks'[t].bucketConfig.maxBucketBytes >= tasks[t].bucketConfig.maxBucketBytes]_vars

\* a task of items <<1, 2, 5>> created with 4 buckets whose config was
\* normalised to 1 bucket of 10 bytes and that has handed out two buckets
C32_HalvedTwiceThenRaised ==
  \E t \in DOMAIN tasks :
    /\ tasks[t].items = <<1, 2, 5>>
    /\ tasks[t].maxBillableChunks = 4
    /\ tasks[t].bucketConfig = [maxBuckets |-> 1, maxBucketBytes |-> 10]
    /\ tasks[t].nextChunkIndex >= 2

\* the payouts issued for task t: the chunk-debit rows of the log that name it
PayoutsOf(t) ==
  Len(SelectSeq(walletTransactions, LAMBDA x : x.type = "chunk-debit" /\ x.taskId = t))

\* budgetSpent and chunksPaid agree with each other and with the log
BudgetAgrees ==
  \A t \in DOMAIN tasks :
    /\ tasks[t].budgetSpent = tasks[t].chunksPaid * tasks[t].costPerChunk
    /\ tasks[t].chunksPaid = PayoutsOf(t)

\* C33: in every reachable state budgetSpent = chunksPaid * costPerChunk and
\* chunksPaid is the number of payouts issued for the task; a step either
\* leaves both fields alone or is a payout that adds 1 and costPerChunk.
C33_BudgetSpentTracksPayouts ==
  /\ []BudgetAgrees
  /\ [][\A t \in DOMAIN tasks \cap DOMAIN tasks' :
          \/ /\ tasks'[t].chunksPaid = tasks[t].chunksPaid
             /\ tasks'[t].budgetSpent = tasks[t].budgetSpent
          \/ /\ tasks'[t].chunksPaid = tasks[t].chunksPaid + 1
             /\ tasks'[t].budgetSpent = tasks[t].budgetSpent + tasks[t].costPerChunk]_vars

\* three of the five buckets are paid: 6 credits spent, a fourth bucket leased
C33_ThreePaidOneLeased ==
  \E t \in DOMAIN tasks :
    /\ tasks[t].chunksPaid = 3
    /\ tasks[t].budgetSpent = 3 * SettlementCost
    /\ PayoutsOf(t) = 3
    /\ \E i \in 1..Len(chunkAssignments) : chunkAssignments[i].taskId = t

\* the chunk-debit rows of the log that name bucket c of task t
DebitsOf(txs, t, c) ==
  Len(SelectSeq(txs, LAMBDA x : x.type = "chunk-debit" /\ x.taskId = t /\ x.chunkIndex = c))

\* the outcome of the record-chunk "completed" that worker w posts for the
\* bucket it holds of task t
CompletedPost(w, t) ==
  RecordChunkOutcome(t, held[w][t].chunkIndex, "completed", held[w][t].rangeStart,
                     held[w][t].rangeEnd, held[w][t].rangeEnd - held[w][t].rangeStart, w)

\* worker w holds a bucket of task t for which a result without payout is stored
UnpaidResultHeld(w, t) ==
  /\ held[w][t].chunkIndex # NULL
  /\ \E k \in 1..Len(chunkResults) :
        /\ chunkResults[k].taskId = t
        /\ chunkResults[k].chunkIndex = held[w][t].chunkIndex
        /\ ~chunkResults[k].payoutIssued

\* the result the outcome o stores for the bucket w holds of task t
StoredBy(o, w, t) == o.results[FindBucket(o.results, t, held[w][t].chunkIndex)]

Recorded(t) ==
  {[chunkIndex |-> chunkAssignments[i].chunkIndex, rangeStart |-> chunkAssignments[i].rangeStart] :
     i \in {k \in 1..Len(chunkAssignments) : chunkAssignments[k].taskId = t}}
  \cup {[chunkIndex |-> chunkResults[i].chunkIndex, rangeStart |-> chunkResults[i].rangeStart] :
     i \in {k \in 1..Len(chunkResults) : chunkResults[k].taskId = t}}
  \cup {[chunkIndex |-> held[w][t].chunkIndex, rangeStart |-> held[w][t].rangeStart] :
     w \in {v \in Workers : held[v][t].chunkIndex # NULL}}

\* every recorded index was handed out by the counter and denotes one range
OneRangePerIndex ==
  \A t \in DOMAIN tasks :
    \A a \in Recorded(t) :
      /\ a.chunkIndex < tasks[t].nextChunkIndex
      /\ \A b \in Recorded(t) : a.chunkIndex = b.chunkIndex => a.rangeStart = b.rangeStart

\* C35: nextChunkIndex only grows and every new lease takes a fresh index,
\* so over the life of a task one bucket index never denotes two ranges:
\* whatever is recorded under an index, now or after a step, has the
\* rangeStart recorded under it before, and an index not recorded before is
\* one the counter had not reached.
C35_IndexDenotesOneRange ==
  /\ []OneRangePerIndex
  /\ [][\A t \in DOMAIN tasks \cap DOMAIN tasks' :
          /\ tasks'[t].nextChunkIndex >= tasks[t].nextChunkIndex
          /\ \A a \in Recorded(t)' :
                \/ \E b \in Recorded(t) : b = a
                \/ /\ a.chunkIndex >= tasks[t].nextChunkIndex
                   /\ a.chunkIndex < tasks'[t].nextChunkIndex]_vars

\* the items from 0 on recorded under two indices: a result of bucket 0 and
\* a later lease of bucket 1, both starting at item 0
C35_SameItemsUnderNewIndex ==
  \E t \in DOMAIN tasks, i \in 1..Len(chunkAssignments), k \in 1..Len(chunkResults) :
    /\ chunkAssignments[i].taskId = t /\ chunkResults[k].taskId = t
    /\ chunkResults[k].chunkIndex = 0 /\ chunkResults[k].rangeStart = 0
    /\ chunkAssignments[i].chunkIndex = 1 /\ chunkAssignments[i].rangeStart = 0
    /\ tasks[t].nextChunkIndex = 2

\* the stored result of bucket c of task t, 0 when there is none
StoredResult(t, c) == FindBucket(chunkResults, t, c)

\* C37: a result in a terminal status keeps it when a progress batch of the
\* same bucket arrives after the result post, and the batch does not lower
\* the task's processedChunks.  Stated for every progress post a worker can
\* make for the bucket it was last granted.
C37_TerminalStaysTerminal ==
  \A w \in Workers, t \in DOMAIN tasks :
    LET g == held[w][t]
        k == StoredResult(t, g.chunkIndex)
    IN g.chunkIndex # NULL /\ k # 0 /\ chunkResults[k].status \in TerminalStatuses =>
         \A n \in 1..(g.rangeEnd - g.rangeStart) :
           \A o \in {RecordProgressOutcome(t, g.chunkIndex, w, g.rangeStart, n,
                                           g.rangeEnd - g.rangeStart)} :
             /\ o.results[k].status = chunkResults[k].status
             /\ o.task.processedChunks >= computeProgress(tasks[t], chunkResults).processedChunks

\* the buckets of task t the workers were last granted, with their ranges
GrantedBuckets(t) ==
  {held[w][t] : w \in {v \in Workers : held[v][t].chunkIndex # NULL}}

\* bucket g of task t has been paid for: the log holds a chunk-debit for it
Debited(t, g) == DebitsOf(walletTransactions, t, g.chunkIndex) > 0

\* C38: no item range is paid for twice: the buckets of a task that the
\* chunk-debit rows name have pairwise disjoint ranges, also when a worker
\* whose lease ran out and the worker that was leased the same items under a
\* new index both post completed results.
C38_DebitedRangesDisjoint ==
  \A t \in DOMAIN tasks :
    \A a, b \in GrantedBuckets(t) :
      a.chunkIndex # b.chunkIndex /\ Debited(t, a) /\ Debited(t, b) =>
        Overlap([start |-> a.rangeStart, end |-> a.rangeEnd],
                [start |-> b.rangeStart, end |-> b.rangeEnd]) = 0

\* a progress post of worker w for the bucket it was last granted sets the
\* deadline of the bucket's stored lease to now + BUCKET_TIMEOUT_MS
ProgressRenews ==
  \A w \in Workers, t \in DOMAIN tasks :
    LET g == held[w][t]
        m == FindBucket(chunkAssignments, t, g.chunkIndex)
    IN g.chunkIndex # NULL /\ m # 0 =>
         \A n \in 1..(g.rangeEnd - g.rangeStart) :
           RecordProgressOutcome(t, g.chunkIndex, w, g.rangeStart, n,
                                 g.rangeEnd - g.rangeStart).assignments[m].expiresAt
             = now + BUCKET_TIMEOUT_MS

\* the leases of the reporting worker have not run out, the sweep of any
\* next-chunk call keeps them, and what the call grants another worker does
\* not meet their ranges
ReporterKeepsLease ==
  \A i \in ReporterLeases :
    LET e == chunkAssignments[i]
    IN /\ now <= e.expiresAt
       /\ \A w \in Workers :
            \A o \in {NextChunkOutcome(e.taskId, w)} :
              /\ \E j \in 1..Len(o.assignments) :
                    /\ o.assignments[j].taskId = e.taskId
                    /\ o.assignments[j].chunkIndex = e.chunkIndex
                    /\ o.assignments[j].workerId = Reporter
              /\ w # Reporter /\ o.resp.ok =>
                    Overlap([start |-> o.resp.rangeStart, end |-> o.resp.rangeEnd], Span(e)) = 0

\* the reporting worker, while it works on a bucket it has posted no result
\* for, is the only one to be granted items of that bucket
ReporterRangeKept ==
  \A t \in DOMAIN tasks :
    LET g == held[Reporter][t]
    IN g.chunkIndex # NULL /\ g.sent = "none" =>
         \A w \in Workers \ {Reporter} :
           \A o \in {NextChunkOutcome(t, w)} :
             o.resp.ok /\ ~o.resp.resume =>
               Overlap([start |-> o.resp.rangeStart, end |-> o.resp.rangeEnd],
                       [start |-> g.rangeStart, end |-> g.rangeEnd]) = 0

CoveredByTerminal(t, i) ==
  \E k \in 1..Len(chunkResults) :
    /\ chunkResults[k].taskId = t
    /\ chunkResults[k].status \in TerminalStatuses
    /\ IsFinite(chunkResults[k].rangeStart) /\ IsFinite(chunkResults[k].rangeEnd)
    /\ chunkResults[k].rangeStart <= i /\ i < chunkResults[k].rangeEnd

\* the work of task t is finished: every item is covered by a terminal
\* result and no result of the task is in status processing
WorkFinished(t) ==
  /\ \A i \in 0..(tasks[t].totalItems - 1) : CoveredByTerminal(t, i)
  /\ \A k \in 1..Len(chunkResults) :
       chunkResults[k].taskId = t => chunkResults[k].status # "processing"

\* C40: a step that takes the status of a task to completed leaves every
\* item of the task covered by a result in a terminal status and no result
\* of the task in status processing.
C40_CompletedMeansFinished ==
  [][\A t \in DOMAIN tasks \cap DOMAIN tasks' :
       tasks[t].status # "completed" /\ tasks'[t].status = "completed" => WorkFinished(t)']_vars
====
